---- MODULE Spec2Model ----
(***************************************************************************)
(* ConcurrentProcessor (blockether_foundation/concurrency.py): one call of *)
(* process(items, transform) on the asyncio event loop.                    *)
(*                                                                         *)
(* Item tasks are numbered 0 .. len(items)-1 as in the source.  A step of  *)
(* a task is atomic (the event loop is single-threaded and a coroutine     *)
(* runs until its next suspension); the suspension points are the wait for *)
(* a semaphore slot, the user's transform and the backoff sleep.  The      *)
(* completion of a transform invocation and of a backoff sleep are events  *)
(* of the environment and interleave freely, which also covers a transform *)
(* that never suspends.                                                    *)
(***************************************************************************)
EXTENDS Integers, Sequences, FiniteSets, TLC

\* ---------------------------------------------------------------- bounds
MaxItems == 2
MaxConcurrency == 2
MaxRetries == 2
MaxThreads == 2
MaxAttempts == 5

\* ------------------------------------------------------- python values
\* A python value: its type, a tag identifying a scalar, and for list,
\* tuple and str what iterating over it yields.
Val(type, tag, elems) == [type |-> type, tag |-> tag, elems |-> elems]
PyNone == Val("NoneType", 0, <<>>)
PyInt(n) == Val("int", n, <<>>)
PyBool(b) == Val("bool", IF b THEN 1 ELSE 0, <<>>)
PyChar(n) == Val("str", n, <<>>)
PyEmptyStr == Val("str", 0, <<>>)
PyStr(n) == Val("str", n, <<PyChar(n + 1), PyChar(n + 2)>>)
PyList(elems) == Val("list", 0, elems)
PyTuple(elems) == Val("tuple", 0, elems)

\* ------------------------------------------------------ python errors
\* An exception object: its class, its identity (the item index and the
\* invocation number it was created in, and a serial number within that
\* invocation), its __cause__ (empty or one error) and, for an exception
\* group, its .exceptions.
Err(cls, id, cause, members) ==
    [cls |-> cls, id |-> id, cause |-> cause, members |-> members]

ExceptionClasses ==
    {"Exception", "ValueError", "TypeError", "KeyError", "RetryError", "ExceptionGroup"}
GroupClasses == {"ExceptionGroup", "BaseExceptionGroup"}

\* isinstance(e, cls) for the classes used here.
IsInstance(e, cls) ==
    \/ e.cls = cls
    \/ cls = "BaseException"
    \/ cls = "Exception" /\ e.cls \in ExceptionClasses
    \/ cls = "BaseExceptionGroup" /\ e.cls \in GroupClasses

\* ------------------------------------------------------------- state
VARIABLES
    concurrency,       \* self._concurrency
    max_retries,       \* self._max_retries
    retry_exceptions,  \* self._retry_exceptions
    items,             \* the items argument of process
    transform,         \* the transform argument of process: what it may return and raise
    proc,              \* the process call: "idle", "gathering", "returned", "raised"
    proc_result,       \* the sequence process returned
    proc_exc,          \* the error process raised (empty or one error)
    sem_value,         \* semaphore._value
    sem_waiters,       \* semaphore._waiters
    ready,             \* task steps the event loop has scheduled, in order
    pc,                \* where each item task is
    attempt_number,    \* tenacity's retry_state.attempt_number of each task
    results_dict,      \* results_dict, in insertion order
    task_exc,          \* the exception each finished task holds
    outer,             \* the future returned by asyncio.gather
    calls,             \* observed: transform invocations per item
    last_raised,       \* observed: what the latest invocation per item raised
    retryable,         \* observed: invocations per item that raised a retryable error
    returned,          \* observed: what transform returned per item, and in which invocation
    fail_order,        \* observed: the failed tasks, in the order they failed
    result_obj,        \* result.py: the Result constructed last (empty or one object)
    result_op,         \* result.py: the operation called last and the fields it passed
    result_outcome,    \* result.py: how that operation ended
    result_value,      \* result.py: what an accessor returned, and whether it called back
    potion_model,      \* PotionEncoder._model: 0 for None, else which load produced it
    potion_initialized,\* PotionEncoder._initialized
    thread_pc,         \* where each executor thread is in _initialize / encode
    thread_model,      \* the model from_pretrained returned to each thread
    load_count,        \* observed: successful calls of StaticModel.from_pretrained
    ov_items,          \* overlapping calls: the items argument of each process call
    ov_proc,           \* overlapping calls: state, result and error of each call
    ov_gate,           \* overlapping calls: the semaphores, _value and _waiters
    ov_map,            \* overlapping calls: the result maps, in insertion order
    ov_outer,          \* overlapping calls: the gather future of each call
    ov_pc,             \* overlapping calls: where each item task of each call is
    ov_attempt,        \* overlapping calls: attempt_number of each task
    ov_exc,            \* overlapping calls: the exception each finished task holds
    ov_returned,       \* overlapping calls, observed: what transform returned per item
    ov_ready,          \* overlapping calls: the task steps the event loop has scheduled
    retry_min_wait,    \* self._retry_min_wait, milliseconds
    retry_max_wait,    \* self._retry_max_wait, milliseconds
    backoff_attempt,   \* backoff: retry_state.attempt_number of the attempt that failed last
    backoff_waits,     \* backoff, observed: the waits applied so far, milliseconds
    bot_config,        \* telegram: webhook_secret, allowlist_user_ids, denylist_user_ids
    executor,          \* telegram: whether attach_routes was given an executor
    request,           \* telegram: the webhook request being handled, and where it is
    response,          \* telegram: the response to it, and whether its body was parsed
    background_tasks,  \* telegram: the updates queued on the request's BackgroundTasks
    executor_runs,     \* telegram, observed: the user ids executor.run was invoked for
    tg_event           \* telegram, observed: the event logged last

config == <<concurrency, max_retries, retry_exceptions, items, transform>>
observed == <<calls, last_raised, retryable, returned, fail_order>>
semaphore == <<sem_value, sem_waiters>>
processor == <<config, proc, proc_result, proc_exc, semaphore, ready, pc,
               attempt_number, results_dict, task_exc, outer, observed>>
resultvars == <<result_obj, result_op, result_outcome, result_value>>
potionvars == <<potion_model, potion_initialized, thread_pc, thread_model, load_count>>
overlapvars == <<ov_items, ov_proc, ov_gate, ov_map, ov_outer, ov_pc, ov_attempt,
                 ov_exc, ov_returned, ov_ready>>
waitconfig == <<retry_min_wait, retry_max_wait>>
backoffvars == <<waitconfig, backoff_attempt, backoff_waits>>
botvars == <<bot_config, executor>>
telegramvars == <<botvars, request, response, background_tasks, executor_runs, tg_event>>
extra == <<overlapvars, backoffvars, telegramvars>>
others == <<resultvars, potionvars, extra>>
vars == <<processor, others>>

Indices == 0 .. Len(items) - 1
Threads == 1 .. MaxThreads

\* Two process calls on one processor that overlap in time.
Calls == {1, 2}

\* Mutant: one semaphore per processor instance, shared by its calls.
GateOfInstance(c) == 0

\* Line 115: "semaphore = asyncio.Semaphore(self._concurrency)" is a local of
\* _process_concurrently, so the semaphore of a call is the call's own.
GateOf(c) == c

\* Line 118: "results_dict = {}" is a local of _process_concurrently too.
MapOf(c) == c

\* ------------------------------------------------------- the transform
ReturnShapes == {"None", "int", "str", "list"}

\* The value of each shape that transform returns for the item at index idx.
MakeValue(shape, idx) ==
    CASE shape = "None" -> PyNone
      [] shape = "int" -> PyInt(10 * idx)
      [] shape = "str" -> PyStr(10 * idx + 5)
      [] shape = "list" -> PyList(<<PyInt(10 * idx + 1), PyNone, PyInt(10 * idx + 2)>>)
      [] shape = "empty list" -> PyList(<<>>)
      [] shape = "empty tuple" -> PyTuple(<<>>)
      [] shape = "list of one" -> PyList(<<PyInt(10 * idx)>>)
      [] shape = "tuple of one" -> PyTuple(<<PyInt(10 * idx)>>)
      [] shape = "empty str" -> PyEmptyStr
      [] shape = "falsy list" ->
             PyList(<<PyInt(0), PyNone, PyEmptyStr, PyBool(FALSE), PyNone>>)

ErrorKinds ==
    {"ValueError", "TypeError", "TypeError from KeyError", "CustomBaseException",
     "ExceptionGroup", "nested ExceptionGroup"}

\* The error of each kind that transform raises in invocation n for the item
\* at index idx.
MakeError(kind, idx, n) ==
    LET ve(k) == Err("ValueError", <<idx, n, k>>, <<>>, <<>>)
        te(k) == Err("TypeError", <<idx, n, k>>, <<>>, <<>>)
        ke(k) == Err("KeyError", <<idx, n, k>>, <<>>, <<>>)
        eg(k) == Err("ExceptionGroup", <<idx, n, k>>, <<>>, <<ve(k + 1), te(k + 2)>>)
    IN  CASE kind = "ValueError" -> ve(0)
          [] kind = "TypeError" -> te(0)
          [] kind = "TypeError from KeyError" -> Err("TypeError", <<idx, n, 0>>, <<ke(1)>>, <<>>)
          [] kind = "CustomBaseException" ->
                 Err("CustomBaseException", <<idx, n, 0>>, <<>>, <<>>)
          [] kind = "ExceptionGroup" -> eg(0)
          [] kind = "nested ExceptionGroup" ->
                 Err("ExceptionGroup", <<idx, n, 0>>, <<>>, <<eg(1), ke(4)>>)

\* What transform may return for the item at index idx.
ReturnValues(idx) == {MakeValue(shape, idx) : shape \in transform.returns}

\* What transform may raise in invocation n for the item at index idx.
RaisedErrors(idx, n) == {MakeError(kind, idx, n) : kind \in transform.raises}

\* A transform that may return and raise anything of the above.
AnyTransform == [returns |-> ReturnShapes, raises |-> ErrorKinds]

\* A transform that returns a scalar or raises a plain error or a severe
\* signal.
PlainTransform ==
    [returns |-> {"int"}, raises |-> {"ValueError", "TypeError", "CustomBaseException"}]

\* Every shape of return value the normalisation tells apart, falsy elements
\* included.
NormShapes ==
    ReturnShapes \cup {"empty list", "empty tuple", "list of one", "tuple of one",
                       "empty str", "falsy list"}

\* A transform that may return any of these shapes or raise a plain error.
ShapeTransform == [returns |-> NormShapes, raises |-> {"ValueError"}]

\* ------------------------------------------- the other components at start
\* result.py: no Result has been constructed.
ResultInit ==
    /\ result_obj = <<>>
    /\ result_op = [op |-> "none", fields |-> <<>>]
    /\ result_outcome = "none"
    /\ result_value = [value |-> <<>>, callback |-> FALSE]

\* potion.py lines 40-41: _model = None, _initialized = False; no thread runs.
PotionInit ==
    /\ potion_model = 0
    /\ potion_initialized = FALSE
    /\ thread_pc = [t \in Threads |-> [entry |-> "none", at |-> "idle"]]
    /\ thread_model = [t \in Threads |-> 0]
    /\ load_count = 0

\* No overlapping process call has been made.
OverlapInit ==
    /\ ov_items = [c \in Calls |-> <<>>]
    /\ ov_proc = [c \in Calls |-> [state |-> "idle", result |-> <<>>, exc |-> <<>>]]
    /\ ov_gate = [g \in {GateOf(c) : c \in Calls} |-> [value |-> 0, waiters |-> <<>>]]
    /\ ov_map = [m \in {MapOf(c) : c \in Calls} |-> <<>>]
    /\ ov_outer = [c \in Calls |-> [state |-> "pending", exc |-> <<>>]]
    /\ ov_pc = [c \in Calls |-> <<>>]
    /\ ov_attempt = [c \in Calls |-> <<>>]
    /\ ov_exc = [c \in Calls |-> <<>>]
    /\ ov_returned = [c \in Calls |-> <<>>]
    /\ ov_ready = <<>>

\* ------------------------------------------------------- __init__
\* self._retry_exceptions = retry_exceptions or (Exception,)
InitRetryExceptions(arg) == IF arg = {} THEN {"Exception"} ELSE arg

\* The defaults of __init__.
DEFAULT_RETRY_MIN_WAIT == 3500
DEFAULT_RETRY_MAX_WAIT == 15000

\* No webhook request has arrived.
TelegramInit ==
    /\ request = [at |-> "none"]
    /\ response = [status |-> 0, parsed |-> FALSE]
    /\ background_tasks = <<>>
    /\ executor_runs = <<>>
    /\ tg_event = "none"

\* models.py, BotConfig: the defaults of the fields used here.
NoSecret == "<None>"
DefaultBot == [webhook_secret |-> NoSecret, allowlist_user_ids |-> {},
               denylist_user_ids |-> {}]

\* No attempt has failed and no wait has been applied.
BackoffInit ==
    /\ backoff_attempt = 0
    /\ backoff_waits = <<>>

\* __init__ stores its arguments as they are and nothing has been processed;
\* fn is the transform that process is given later.
Constructed(fn) ==
    /\ transform = fn
    /\ \E arg \in {{}, {"ValueError"}} : retry_exceptions = InitRetryExceptions(arg)
    /\ \E n \in 0 .. MaxItems : items = [k \in 1 .. n |-> k - 1]
    /\ proc = "idle"
    /\ proc_result = <<>>
    /\ proc_exc = <<>>
    /\ sem_value = 0
    /\ sem_waiters = <<>>
    /\ ready = <<>>
    /\ pc = [i \in Indices |-> "unborn"]
    /\ attempt_number = [i \in Indices |-> 0]
    /\ results_dict = <<>>
    /\ task_exc = [i \in Indices |-> <<>>]
    /\ outer = [state |-> "pending", exc |-> <<>>]
    /\ calls = [i \in Indices |-> 0]
    /\ last_raised = [i \in Indices |-> <<>>]
    /\ retryable = [i \in Indices |-> 0]
    /\ returned = [i \in Indices |-> <<>>]
    /\ fail_order = <<>>
    /\ ResultInit
    /\ PotionInit
    /\ OverlapInit
    /\ BackoffInit
    /\ TelegramInit

\* A processor constructed with any concurrency and max_retries, none
\* excluded, and the default wait bounds.
InitWith(fn) ==
    /\ Constructed(fn)
    /\ concurrency \in 0 .. MaxConcurrency
    /\ max_retries \in 0 .. MaxRetries
    /\ retry_min_wait = DEFAULT_RETRY_MIN_WAIT
    /\ retry_max_wait = DEFAULT_RETRY_MAX_WAIT
    /\ bot_config = DefaultBot
    /\ executor = FALSE

Init == InitWith(AnyTransform)

\* An error is retryable when it is an instance of a configured class.
Retryable(e) == \E t \in retry_exceptions : IsInstance(e, t)

\* ------------------------------------------------- process._wrapped_call
\* Mutant: everything iterable is taken as a sequence, a string included.
WrappedCallAnySequence(result) ==
    IF result.type = "NoneType" THEN <<>>
    ELSE IF result.type \in {"list", "tuple", "str"} THEN result.elems
    ELSE <<result>>

\* The normalisation of what transform returned into a sequence.
WrappedCall(result) ==
    IF result.type = "NoneType" THEN <<>>
    ELSE IF result.type = "str" THEN <<result>>
    ELSE IF result.type \in {"list", "tuple"} THEN result.elems
    ELSE <<result>>

\* ------------------------------------------------------ retry_decorator
\* Mutant: every Exception is retried, whatever classes are configured.
RetryIfAnyException(e) == IsInstance(e, "Exception")

\* Mutant: whatever was raised is retried.
RetryAlways(e) == TRUE

\* retry=retry_if_exception_type(self._retry_exceptions)
RetryIfExceptionType(e) == Retryable(e)

\* Mutant: the retry loop stops one attempt early.
StopOneAttemptEarly(n) == n >= max_retries - 1

\* stop=stop_after_attempt(self._max_retries)
\* Mutant: one retry state for all items; the attempts of every item count.
RECURSIVE AttemptsOfFirst(_)
AttemptsOfFirst(k) ==
    IF k = 0 THEN 0 ELSE AttemptsOfFirst(k - 1) + attempt_number[k - 1]

StopAfterSharedAttempts(n) == AttemptsOfFirst(Len(items)) >= max_retries

\* Mutant: max_retries counts the retries, not the attempts.
StopOneAttemptLate(n) == n > max_retries

StopAfterAttempt(n) == n >= max_retries

\* What the retry decorator raises once it stops: RetryError from the
\* last attempt's exception (reraise is left at its default).
RetryErrorFrom(e) == Err("RetryError", <<e.id[1], e.id[2], 9>>, <<e>>, <<>>)

\* What ends process_with_retry when an attempt raised e in attempt n:
\* "retry" (sleep, then another attempt), or the error it raises.
RetryOutcome(e, n) ==
    IF ~RetryIfExceptionType(e) THEN [retry |-> FALSE, exc |-> e]
    ELSE IF StopAfterAttempt(n) THEN [retry |-> FALSE, exc |-> RetryErrorFrom(e)]
    ELSE [retry |-> TRUE, exc |-> e]

\* ------------------------------------------------- process_with_limiter
\* raise e from None
RaiseFromNone(e) == [e EXCEPT !.cause = <<>>]

\* Mutant: the except clause re-raises what it caught, without looking at
\* __cause__.
LimiterRaisesAsCaught(excg) ==
    LET exceptions ==
            IF IsInstance(excg, "BaseExceptionGroup") THEN excg.members ELSE <<excg>>
    IN  exceptions[1]

\* The except clause: what the task raises for the exception excg that
\* came out of process_with_retry.  The for loop leaves in its first
\* iteration.
LimiterRaises(excg) ==
    LET exceptions ==
            IF IsInstance(excg, "BaseExceptionGroup") THEN excg.members ELSE <<excg>>
        exc == exceptions[1]
    IN  IF IsInstance(exc, "Exception")
        THEN IF exc.cause # <<>> THEN RaiseFromNone(exc.cause[1]) ELSE RaiseFromNone(exc)
        ELSE exc

\* Mutant: a failed item is swallowed and contributes nothing.
LimiterSwallowsError(excg) == [failed |-> FALSE, exc |-> <<>>, result |-> <<>>]

\* How the task of an item ends when process_with_retry raised excg.
LimiterOnError(excg) == [failed |-> TRUE, exc |-> <<LimiterRaises(excg)>>, result |-> <<>>]

\* How the task of an item ends when process_with_retry returned result.
LimiterOnResult(result) == [failed |-> FALSE, exc |-> <<>>, result |-> result]

\* ------------------------------------------------------ asyncio.Semaphore
\* Mutant: the counter is compared with the wrong bound.
SemLockedBelowZero(value, waiters) == value < 0 \/ waiters # <<>>

\* Mutant: acquire() never finds the semaphore locked.
SemLockedNever(value, waiters) == FALSE

SemLocked(value, waiters) == value = 0 \/ waiters # <<>>

\* Mutant: release() returns the slot to the counter and wakes nobody.
SemReleaseWakesNobody(value, waiters) ==
    [value |-> value + 1, waiters |-> waiters, woken |-> <<>>]

\* Mutant: release() leaves the semaphore as it is.
SemReleaseKeepsSlot(value, waiters) ==
    [value |-> value, waiters |-> waiters, woken |-> <<>>]

\* release(): the slot goes to the first waiter, which is scheduled to
\* resume, or back to the counter.
SemRelease(value, waiters) ==
    IF waiters = <<>>
    THEN [value |-> value + 1, waiters |-> waiters, woken |-> <<>>]
    ELSE [value |-> value, waiters |-> Tail(waiters), woken |-> <<Head(waiters)>>]

\* ---------------------------------------------------------- results_dict
DictHas(d, k) == \E p \in 1 .. Len(d) : d[p].key = k
DictGet(d, k) == d[CHOOSE p \in 1 .. Len(d) : d[p].key = k].value
DictSet(d, k, v) ==
    IF DictHas(d, k)
    THEN [p \in 1 .. Len(d) |-> IF d[p].key = k THEN [key |-> k, value |-> v] ELSE d[p]]
    ELSE Append(d, [key |-> k, value |-> v])

\* ---------------------------------------------------------- asyncio.gather
\* Mutant: the future completes only when every task has finished, with the
\* first exception it saw (gather waiting for all its children).
GatherWaitsForAll(o, exc, all_finished) ==
    LET first == IF o.exc # <<>> THEN o.exc ELSE exc
    IN  IF o.state # "pending" THEN o
        ELSE IF ~all_finished THEN [state |-> "pending", exc |-> first]
        ELSE IF first # <<>> THEN [state |-> "exc", exc |-> first]
        ELSE [state |-> "done", exc |-> <<>>]

\* Mutant: a later exception replaces the one the future already holds.
GatherLastExceptionWins(o, exc, all_finished) ==
    IF o.state = "done" THEN o
    ELSE IF exc # <<>> THEN [state |-> "exc", exc |-> exc]
    ELSE IF all_finished /\ o.state = "pending" THEN [state |-> "done", exc |-> <<>>]
    ELSE o

\* The done-callback of one task on the future gather returned: the first
\* exception completes it, later ones are dropped; it completes without
\* exception when the last task finished.
GatherDoneCallback(o, exc, all_finished) ==
    IF o.state # "pending" THEN o
    ELSE IF exc # <<>> THEN [state |-> "exc", exc |-> exc]
    ELSE IF all_finished THEN [state |-> "done", exc |-> <<>>]
    ELSE o

\* ------------------------------------------------------------- assembly
RECURSIVE Flatten(_)
Flatten(lists) ==
    IF lists = <<>> THEN <<>> ELSE Head(lists) \o Flatten(Tail(lists))

\* Mutant: the filter keeps what is truthy ("if r") instead of what is not None.
IsTruthy(r) ==
    /\ r.type # "NoneType"
    /\ ~(r.type \in {"int", "bool"} /\ r.tag = 0)
    /\ ~(r.type \in {"str", "list", "tuple"} /\ r.elems = <<>>)

IsNotNone(r) == r # PyNone

\* Mutant: the results are taken in the order the map received them.
AssembleInInsertionOrder(d, n) ==
    SelectSeq(Flatten([k \in 1 .. Len(d) |-> d[k].value]), IsNotNone)

\* results = [results_dict[i] for i in range(len(items))], flattened, filtered
Assemble(d, n) ==
    SelectSeq(Flatten([k \in 1 .. n |-> DictGet(d, k - 1)]), IsNotNone)

\* ------------------------------------------------------------- actions
\* Mutant: no early return for empty input; the semaphore is created and
\* gather awaited for no task.
CallProcessWithoutEmptyCheck ==
    /\ proc = "idle"
    /\ proc' = "gathering"
    /\ sem_value' = concurrency
    /\ sem_waiters' = <<>>
    /\ ready' = items
    /\ pc' = [i \in Indices |-> "created"]
    /\ UNCHANGED <<others, config, proc_result, proc_exc, attempt_number, results_dict,
                   task_exc, outer, observed>>

\* process -> _process_concurrently up to "await asyncio.gather(*tasks)":
\* empty input returns at once; otherwise the semaphore, the result map and
\* one task per item are created, the tasks scheduled in input order.
CallProcess ==
    /\ proc = "idle"
    /\ IF items = <<>>
       THEN /\ proc' = "returned"
            /\ UNCHANGED <<semaphore, ready, pc>>
       ELSE /\ proc' = "gathering"
            /\ sem_value' = concurrency
            /\ sem_waiters' = <<>>
            /\ ready' = items
            /\ pc' = [i \in Indices |-> "created"]
    /\ UNCHANGED <<others, config, proc_result, proc_exc, attempt_number, results_dict,
                   task_exc, outer, observed>>

\* The first attempt of process_with_retry(item) begins: transform is invoked.
BeginFirstAttempt(i) ==
    /\ attempt_number' = [attempt_number EXCEPT ![i] = 1]
    /\ calls' = [calls EXCEPT ![i] = @ + 1]

\* Mutant: the event loop runs the first steps of the tasks in any order.
TaskStartInAnyOrder(i) ==
    /\ \E k \in 1 .. Len(ready) : ready[k] = i
    /\ pc[i] = "created"
    /\ ready' = SelectSeq(ready, LAMBDA y : y # i)
    /\ IF SemLocked(sem_value, sem_waiters)
       THEN /\ sem_waiters' = Append(sem_waiters, i)
            /\ pc' = [pc EXCEPT ![i] = "waiting"]
            /\ UNCHANGED <<sem_value, attempt_number, calls>>
       ELSE /\ sem_value' = sem_value - 1
            /\ pc' = [pc EXCEPT ![i] = "running"]
            /\ BeginFirstAttempt(i)
            /\ UNCHANGED sem_waiters
    /\ UNCHANGED <<others, config, proc, proc_result, proc_exc, results_dict, task_exc,
                   outer, last_raised, retryable,
                   returned, fail_order>>

\* The first step of task i: "async with semaphore" takes a slot and the
\* first attempt starts, or the task queues behind the semaphore.
TaskStart(i) ==
    /\ ready # <<>> /\ Head(ready) = i
    /\ pc[i] = "created"
    /\ ready' = Tail(ready)
    /\ IF SemLocked(sem_value, sem_waiters)
       THEN /\ sem_waiters' = Append(sem_waiters, i)
            /\ pc' = [pc EXCEPT ![i] = "waiting"]
            /\ UNCHANGED <<sem_value, attempt_number, calls>>
       ELSE /\ sem_value' = sem_value - 1
            /\ pc' = [pc EXCEPT ![i] = "running"]
            /\ BeginFirstAttempt(i)
            /\ UNCHANGED sem_waiters
    /\ UNCHANGED <<others, config, proc, proc_result, proc_exc, results_dict, task_exc,
                   outer, last_raised, retryable,
                   returned, fail_order>>

\* A task that release() handed a slot resumes inside "async with semaphore"
\* and starts its first attempt.
WaiterResumes(i) ==
    /\ ready # <<>> /\ Head(ready) = i
    /\ pc[i] = "woken"
    /\ ready' = Tail(ready)
    /\ pc' = [pc EXCEPT ![i] = "running"]
    /\ BeginFirstAttempt(i)
    /\ UNCHANGED <<others, config, proc, proc_result, proc_exc, semaphore, results_dict,
                   task_exc, outer, last_raised, retryable,
                   returned, fail_order>>

\* Mutant: the map receives an entry however the item ended, as if the
\* assignment stood in a finally clause.
TaskEndsStoringAlways(i, end) ==
    LET rel == SemRelease(sem_value, sem_waiters)
        state == IF end.failed THEN "failed" ELSE "done"
        finished == {j \in Indices : pc[j] \in {"done", "failed"}} \cup {i}
    IN  /\ sem_value' = rel.value
        /\ sem_waiters' = rel.waiters
        /\ ready' = ready \o rel.woken
        /\ pc' = [j \in Indices |->
                    IF j = i THEN state
                    ELSE IF rel.woken = <<j>> THEN "woken"
                    ELSE pc[j]]
        /\ results_dict' = DictSet(results_dict, i, end.result)
        /\ task_exc' = [task_exc EXCEPT ![i] = end.exc]
        /\ fail_order' = IF end.failed THEN Append(fail_order, i) ELSE fail_order
        /\ outer' = GatherDoneCallback(outer, end.exc, finished = Indices)

\* Task i leaves process_with_limiter with outcome end: the result is stored
\* or the exception kept by the task, the semaphore slot is released on the
\* way out of "async with", and gather's done-callback sees the task.
TaskEnds(i, end) ==
    LET rel == SemRelease(sem_value, sem_waiters)
        state == IF end.failed THEN "failed" ELSE "done"
        finished == {j \in Indices : pc[j] \in {"done", "failed"}} \cup {i}
    IN  /\ sem_value' = rel.value
        /\ sem_waiters' = rel.waiters
        /\ ready' = ready \o rel.woken
        /\ pc' = [j \in Indices |->
                    IF j = i THEN state
                    ELSE IF rel.woken = <<j>> THEN "woken"
                    ELSE pc[j]]
        /\ results_dict' =
               IF end.failed THEN results_dict ELSE DictSet(results_dict, i, end.result)
        /\ task_exc' = [task_exc EXCEPT ![i] = end.exc]
        /\ fail_order' = IF end.failed THEN Append(fail_order, i) ELSE fail_order
        /\ outer' = GatherDoneCallback(outer, end.exc, finished = Indices)

\* A transform invocation of item i returns value: process_with_retry returns
\* its normalisation and the task ends.
TransformReturns(i) ==
    /\ pc[i] = "running"
    /\ \E value \in ReturnValues(i) :
          /\ TaskEnds(i, LimiterOnResult(WrappedCall(value)))
          /\ returned' = [returned EXCEPT ![i] = <<[value |-> value, call |-> calls[i]]>>]
    /\ last_raised' = [last_raised EXCEPT ![i] = <<>>]
    /\ UNCHANGED <<others, config, proc, proc_result, proc_exc, attempt_number, calls, retryable>>


\* Mutant: the slot is given back for the time of the backoff wait, as if
\* the semaphore were taken per attempt and not per item.
TransformRaisesFreeingSlot(i) ==
    /\ pc[i] = "running"
    /\ \E e \in RaisedErrors(i, calls[i]) :
          LET out == RetryOutcome(e, attempt_number[i])
              rel == SemRelease(sem_value, sem_waiters)
          IN  /\ last_raised' = [last_raised EXCEPT ![i] = <<e>>]
              /\ retryable' = [retryable EXCEPT ![i] = IF Retryable(e) THEN @ + 1 ELSE @]
              /\ IF out.retry
                 THEN /\ pc' = [j \in Indices |->
                                  IF j = i THEN "sleeping"
                                  ELSE IF rel.woken = <<j>> THEN "woken"
                                  ELSE pc[j]]
                      /\ sem_value' = rel.value
                      /\ sem_waiters' = rel.waiters
                      /\ ready' = ready \o rel.woken
                      /\ UNCHANGED <<results_dict, task_exc, fail_order, outer>>
                 ELSE TaskEnds(i, LimiterOnError(out.exc))
    /\ UNCHANGED <<others, config, proc, proc_result, proc_exc, attempt_number, calls, returned>>

\* A transform invocation of item i raises: the retry decorator sleeps for
\* another attempt, or process_with_retry raises and the task ends.
TransformRaises(i) ==
    /\ pc[i] = "running"
    /\ \E e \in RaisedErrors(i, calls[i]) :
          LET out == RetryOutcome(e, attempt_number[i])
          IN  /\ last_raised' = [last_raised EXCEPT ![i] = <<e>>]
              /\ retryable' = [retryable EXCEPT ![i] = IF Retryable(e) THEN @ + 1 ELSE @]
              /\ IF out.retry
                 THEN /\ pc' = [pc EXCEPT ![i] = "sleeping"]
                      /\ UNCHANGED <<semaphore, ready, results_dict, task_exc,
                                     fail_order, outer>>
                 ELSE TaskEnds(i, LimiterOnError(out.exc))
    /\ UNCHANGED <<others, config, proc, proc_result, proc_exc, attempt_number, calls, returned>>

\* The backoff sleep of task i is over: the next attempt invokes transform.
BackoffElapsed(i) ==
    /\ pc[i] = "sleeping"
    /\ pc' = [pc EXCEPT ![i] = "running"]
    /\ attempt_number' = [attempt_number EXCEPT ![i] = @ + 1]
    /\ calls' = [calls EXCEPT ![i] = @ + 1]
    /\ UNCHANGED <<others, config, proc, proc_result, proc_exc, semaphore, ready,
                   results_dict, task_exc, outer, last_raised, retryable,
                   returned, fail_order>>

\* "await asyncio.gather(*tasks)" completes: process raises the exception of
\* the gather future, or assembles and returns the results.
ProcessResumes ==
    /\ proc = "gathering"
    /\ outer.state # "pending"
    /\ IF outer.state = "exc"
       THEN /\ proc' = "raised"
            /\ proc_exc' = outer.exc
            /\ UNCHANGED proc_result
       ELSE IF \A i \in Indices : DictHas(results_dict, i)
       THEN /\ proc' = "returned"
            /\ proc_result' = Assemble(results_dict, Len(items))
            /\ UNCHANGED proc_exc
       ELSE /\ proc' = "raised"
            /\ proc_exc' = <<Err("KeyError", <<Len(items), 0, 0>>, <<>>, <<>>)>>
            /\ UNCHANGED proc_result
    /\ UNCHANGED <<others, config, semaphore, ready, pc, attempt_number, results_dict,
                   task_exc, outer, observed>>

Next ==
    \/ CallProcess
    \/ \E i \in Indices : TaskStart(i)
    \/ \E i \in Indices : WaiterResumes(i)
    \/ \E i \in Indices : TransformReturns(i)
    \/ \E i \in Indices : TransformRaises(i)
    \/ \E i \in Indices : BackoffElapsed(i)
    \/ ProcessResumes

Spec == Init /\ [][Next]_vars

\* The event loop runs every step it has scheduled, every transform invocation
\* returns or raises, and every backoff sleep ends.
Fairness ==
    /\ WF_vars(CallProcess)
    /\ WF_vars(ProcessResumes)
    /\ \A i \in 0 .. MaxItems - 1 :
          /\ WF_vars(i \in Indices /\ TaskStart(i))
          /\ WF_vars(i \in Indices /\ WaiterResumes(i))
          /\ WF_vars(i \in Indices /\ (TransformReturns(i) \/ TransformRaises(i)))
          /\ WF_vars(i \in Indices /\ BackoffElapsed(i))

\* The fair behaviours of process calls with a plain transform.
FairSpec == InitWith(PlainTransform) /\ [][Next]_vars /\ Fairness

\* The same program with a transform that returns every shape of value, the
\* processor constructed without retry_exceptions.
\* ------------------------------------------------------- cancellation
\* The sequence s without the element x.
Without(s, x) == SelectSeq(s, LAMBDA y : y # x)

\* The CancelledError thrown into task i.
CancelledErrorOf(i) == Err("CancelledError", <<i, calls[i], 8>>, <<>>, <<>>)

\* Task i is cancelled (the caller of process gives the call up and gather
\* cancels its children, or the event loop shuts down) and CancelledError is
\* thrown into it where it is suspended. Before its first step and while it
\* waits for the semaphore it holds no slot and ends; when the semaphore has
\* already woken it, acquire() gives the slot back (release) before it ends;
\* inside transform and inside the backoff sleep the error leaves
\* process_with_retry, and process_with_limiter re-raises it while
\* "async with" releases the slot.
CancelTask(i) ==
    LET e == CancelledErrorOf(i)
        finished == {j \in Indices : pc[j] \in {"done", "failed"}} \cup {i}
    IN  /\ pc[i] \in {"created", "waiting", "woken", "running", "sleeping"}
        /\ IF pc[i] \in {"running", "sleeping"}
           THEN /\ TaskEnds(i, LimiterOnError(
                        IF pc[i] = "running"
                        THEN RetryOutcome(e, attempt_number[i]).exc
                        ELSE e))
                /\ last_raised' =
                       IF pc[i] = "running" THEN [last_raised EXCEPT ![i] = <<e>>]
                       ELSE last_raised
           ELSE /\ LET rel == IF pc[i] = "woken"
                              THEN SemRelease(sem_value, sem_waiters)
                              ELSE [value |-> sem_value,
                                    waiters |-> Without(sem_waiters, i),
                                    woken |-> <<>>]
                   IN  /\ sem_value' = rel.value
                       /\ sem_waiters' = rel.waiters
                       /\ ready' = Without(ready, i) \o rel.woken
                       /\ pc' = [j \in Indices |->
                                   IF j = i THEN "failed"
                                   ELSE IF rel.woken = <<j>> THEN "woken"
                                   ELSE pc[j]]
                /\ task_exc' = [task_exc EXCEPT ![i] = <<e>>]
                /\ fail_order' = Append(fail_order, i)
                /\ outer' = GatherDoneCallback(outer, <<e>>, finished = Indices)
                /\ UNCHANGED <<results_dict, last_raised>>
        /\ UNCHANGED <<others, config, proc, proc_result, proc_exc, attempt_number,
                       calls, retryable, returned>>

CancelNext ==
    \/ Next
    \/ \E i \in Indices : CancelTask(i)

\* The same program with a plain transform, its tasks open to cancellation.
CancelSpec == InitWith(PlainTransform) /\ [][CancelNext]_vars

NormInit ==
    /\ InitWith(ShapeTransform)
    /\ retry_exceptions = InitRetryExceptions({})

NormSpec == NormInit /\ [][Next]_vars

\* ------------------------------------------------ the backoff wait
Max(a, b) == IF a >= b THEN a ELSE b
Min(a, b) == IF a <= b THEN a ELSE b

RECURSIVE Pow2(_)
Pow2(k) == IF k = 0 THEN 1 ELSE 2 * Pow2(k - 1)

\* Mutant: the wait has no floor.
WaitExponentialWithoutMin(n) == Min(1000 * Pow2(n - 1), retry_max_wait)

\* wait_exponential(min=self._retry_min_wait / 1000, max=self._retry_max_wait / 1000)
\* called with retry_state.attempt_number = n: multiplier 1 (second) and
\* exp_base 2 are tenacity's defaults, and it returns
\* max(max(0, min), min(multiplier * exp_base ** (n - 1), max)) seconds.
\* The seconds are written in thousandths, which are the milliseconds of
\* the configuration.
WaitExponential(n) == Max(Max(0, retry_min_wait), Min(1000 * Pow2(n - 1), retry_max_wait))

\* One more attempt of an item fails with a retryable error and the retry
\* loop does not stop: the wait for that attempt number is applied.
AttemptFails ==
    /\ ~StopAfterAttempt(backoff_attempt + 1)
    /\ backoff_attempt' = backoff_attempt + 1
    /\ backoff_waits' = Append(backoff_waits, WaitExponential(backoff_attempt + 1))
    /\ UNCHANGED <<processor, resultvars, potionvars, overlapvars, telegramvars, waitconfig>>

\* The wait bounds a processor may be constructed with, milliseconds:
\* __init__ takes any integers.
WaitBounds == {-2000, -1000, 0, 500, 1000, 3500, 4000, 15000, 20000}

\* A processor with any wait bounds that retries every error of its single
\* item for MaxAttempts failed attempts.
BackoffStart ==
    /\ Constructed(PlainTransform)
    /\ concurrency = 1
    /\ max_retries = MaxAttempts + 1
    /\ retry_exceptions = InitRetryExceptions({})
    /\ items = <<>>
    /\ retry_min_wait \in WaitBounds
    /\ retry_max_wait \in WaitBounds
    /\ bot_config = DefaultBot
    /\ executor = FALSE

BackoffSpec == BackoffStart /\ [][AttemptFails]_vars

\* ------------------------------------------- overlapping process calls
\* The items of call c are its own: no item is given to both calls.
ItemOf(c, k) == (c - 1) * MaxItems + k
OverlapIndices(c) == 0 .. Len(ov_items[c]) - 1
OverlapTasks == {<<c, i>> : c \in Calls, i \in 0 .. MaxItems - 1}

\* process(items, transform) is called while the other call may be under
\* way: the call creates its semaphore, its result map and one task per
\* item, and awaits gather.  Call 1 names the call that is made first.
OverlapCallProcess(c, n) ==
    /\ ov_proc[c].state = "idle"
    /\ c = 2 => ov_proc[1].state # "idle"
    /\ ov_items' = [ov_items EXCEPT ![c] = [k \in 1 .. n |-> ItemOf(c, k - 1)]]
    /\ ov_proc' = [ov_proc EXCEPT ![c].state = "gathering"]
    /\ ov_gate' = [ov_gate EXCEPT ![GateOf(c)] = [value |-> concurrency, waiters |-> <<>>]]
    /\ ov_map' = [ov_map EXCEPT ![MapOf(c)] = <<>>]
    /\ ov_pc' = [ov_pc EXCEPT ![c] = [i \in 0 .. n - 1 |-> "created"]]
    /\ ov_attempt' = [ov_attempt EXCEPT ![c] = [i \in 0 .. n - 1 |-> 0]]
    /\ ov_exc' = [ov_exc EXCEPT ![c] = [i \in 0 .. n - 1 |-> <<>>]]
    /\ ov_returned' = [ov_returned EXCEPT ![c] = [i \in 0 .. n - 1 |-> <<>>]]
    /\ ov_ready' = ov_ready \o [k \in 1 .. n |-> <<c, k - 1>>]
    /\ UNCHANGED <<processor, resultvars, potionvars, backoffvars, telegramvars, ov_outer>>

\* The pc of every task after task <<c, i>> moved to state and release()
\* woke the tasks in woken.
OverlapPc(c, i, state, woken) ==
    [d \in Calls |->
        [j \in DOMAIN ov_pc[d] |->
            IF <<d, j>> = <<c, i>> THEN state
            ELSE IF woken = <<(<<d, j>>)>> THEN "woken"
            ELSE ov_pc[d][j]]]

\* The first step of task i of call c at "async with semaphore".
OverlapTaskStart(c, i) ==
    LET gate == ov_gate[GateOf(c)]
    IN  /\ ov_ready # <<>> /\ Head(ov_ready) = <<c, i>>
        /\ ov_pc[c][i] = "created"
        /\ ov_ready' = Tail(ov_ready)
        /\ IF SemLocked(gate.value, gate.waiters)
           THEN /\ ov_gate' = [ov_gate EXCEPT ![GateOf(c)].waiters = Append(@, <<c, i>>)]
                /\ ov_pc' = OverlapPc(c, i, "waiting", <<>>)
                /\ UNCHANGED ov_attempt
           ELSE /\ ov_gate' = [ov_gate EXCEPT ![GateOf(c)].value = @ - 1]
                /\ ov_pc' = OverlapPc(c, i, "running", <<>>)
                /\ ov_attempt' = [ov_attempt EXCEPT ![c][i] = 1]
        /\ UNCHANGED <<processor, resultvars, potionvars, backoffvars, telegramvars, ov_items, ov_proc, ov_map,
                       ov_outer, ov_exc, ov_returned>>

\* A task that release() handed a slot resumes and starts its first attempt.
OverlapWaiterResumes(c, i) ==
    /\ ov_ready # <<>> /\ Head(ov_ready) = <<c, i>>
    /\ ov_pc[c][i] = "woken"
    /\ ov_ready' = Tail(ov_ready)
    /\ ov_pc' = OverlapPc(c, i, "running", <<>>)
    /\ ov_attempt' = [ov_attempt EXCEPT ![c][i] = 1]
    /\ UNCHANGED <<processor, resultvars, potionvars, backoffvars, telegramvars, ov_items, ov_proc, ov_gate,
                   ov_map, ov_outer, ov_exc, ov_returned>>

\* Task i of call c leaves process_with_limiter with outcome end.
OverlapTaskEnds(c, i, end) ==
    LET gate == ov_gate[GateOf(c)]
        rel == SemRelease(gate.value, gate.waiters)
        state == IF end.failed THEN "failed" ELSE "done"
        finished == {j \in OverlapIndices(c) : ov_pc[c][j] \in {"done", "failed"}} \cup {i}
    IN  /\ ov_gate' = [ov_gate EXCEPT ![GateOf(c)] =
                          [value |-> rel.value, waiters |-> rel.waiters]]
        /\ ov_ready' = ov_ready \o rel.woken
        /\ ov_pc' = OverlapPc(c, i, state, rel.woken)
        /\ ov_map' = IF end.failed THEN ov_map
                     ELSE [ov_map EXCEPT ![MapOf(c)] = DictSet(@, i, end.result)]
        /\ ov_exc' = [ov_exc EXCEPT ![c][i] = end.exc]
        /\ ov_outer' = [ov_outer EXCEPT ![c] =
                           GatherDoneCallback(@, end.exc, finished = OverlapIndices(c))]

\* A transform invocation for item i of call c returns.
OverlapTransformReturns(c, i) ==
    /\ ov_pc[c][i] = "running"
    /\ \E value \in ReturnValues(ov_items[c][i + 1]) :
          /\ OverlapTaskEnds(c, i, LimiterOnResult(WrappedCall(value)))
          /\ ov_returned' = [ov_returned EXCEPT ![c][i] = <<value>>]
    /\ UNCHANGED <<processor, resultvars, potionvars, backoffvars, telegramvars, ov_items, ov_proc, ov_attempt>>

\* A transform invocation for item i of call c raises.
OverlapTransformRaises(c, i) ==
    /\ ov_pc[c][i] = "running"
    /\ \E e \in RaisedErrors(ov_items[c][i + 1], ov_attempt[c][i]) :
          LET out == RetryOutcome(e, ov_attempt[c][i])
          IN  IF out.retry
              THEN /\ ov_pc' = OverlapPc(c, i, "sleeping", <<>>)
                   /\ UNCHANGED <<ov_gate, ov_ready, ov_map, ov_exc, ov_outer>>
              ELSE OverlapTaskEnds(c, i, LimiterOnError(out.exc))
    /\ UNCHANGED <<processor, resultvars, potionvars, backoffvars, telegramvars, ov_items, ov_proc, ov_attempt,
                   ov_returned>>

\* The backoff sleep of task i of call c is over.
OverlapBackoffElapsed(c, i) ==
    /\ ov_pc[c][i] = "sleeping"
    /\ ov_pc' = OverlapPc(c, i, "running", <<>>)
    /\ ov_attempt' = [ov_attempt EXCEPT ![c][i] = @ + 1]
    /\ UNCHANGED <<processor, resultvars, potionvars, backoffvars, telegramvars, ov_items, ov_proc, ov_gate,
                   ov_map, ov_outer, ov_exc, ov_returned, ov_ready>>

\* "await asyncio.gather(*tasks)" of call c completes.
OverlapProcessResumes(c) ==
    LET d == ov_map[MapOf(c)]
    IN  /\ ov_proc[c].state = "gathering"
        /\ ov_outer[c].state # "pending"
        /\ ov_proc' = [ov_proc EXCEPT ![c] =
               IF ov_outer[c].state = "exc"
               THEN [state |-> "raised", result |-> <<>>, exc |-> ov_outer[c].exc]
               ELSE IF \A i \in OverlapIndices(c) : DictHas(d, i)
               THEN [state |-> "returned", result |-> Assemble(d, Len(ov_items[c])),
                     exc |-> <<>>]
               ELSE [state |-> "raised", result |-> <<>>,
                     exc |-> <<Err("KeyError", <<Len(ov_items[c]), 0, 0>>, <<>>, <<>>)>>]]
        /\ UNCHANGED <<processor, resultvars, potionvars, backoffvars, telegramvars, ov_items, ov_gate, ov_map,
                       ov_outer, ov_pc, ov_attempt, ov_exc, ov_returned, ov_ready>>

OverlapNext ==
    \/ \E c \in Calls, n \in 1 .. MaxItems : OverlapCallProcess(c, n)
    \/ \E t \in OverlapTasks : t[2] \in OverlapIndices(t[1]) /\ OverlapTaskStart(t[1], t[2])
    \/ \E t \in OverlapTasks : t[2] \in OverlapIndices(t[1]) /\ OverlapWaiterResumes(t[1], t[2])
    \/ \E t \in OverlapTasks : t[2] \in OverlapIndices(t[1]) /\ OverlapTransformReturns(t[1], t[2])
    \/ \E t \in OverlapTasks : t[2] \in OverlapIndices(t[1]) /\ OverlapTransformRaises(t[1], t[2])
    \/ \E t \in OverlapTasks : t[2] \in OverlapIndices(t[1]) /\ OverlapBackoffElapsed(t[1], t[2])
    \/ \E c \in Calls : OverlapProcessResumes(c)

\* A processor that admits one or two transformations and makes one or two
\* attempts, used by two process calls whose transform returns a scalar or
\* raises a plain error.
OverlapStart ==
    /\ InitWith([returns |-> {"int"}, raises |-> {"ValueError"}])
    /\ concurrency \in {1, 2}
    /\ max_retries \in {1, 2}
    /\ retry_exceptions = InitRetryExceptions({})
    /\ items = <<>>

OverlapSpec == OverlapStart /\ [][OverlapNext]_vars

\* A processor that is constructed with the smallest configuration and given
\* no items: the state of the processor while another component is used.
NoProcessing ==
    /\ InitWith(PlainTransform)
    /\ concurrency = 1
    /\ max_retries = 1
    /\ retry_exceptions = InitRetryExceptions({})
    /\ items = <<>>

\* ---------------------------------------------------- result.py: Result
\* The values an Ok may hold (None, a falsy and a truthy one) and the errors
\* an Err may hold; None stands for a missing field.
OkValues == {PyNone, PyInt(0), PyInt(42)}
ResultErrorOf(k) == Err("ResultError", <<0, 0, k>>, <<>>, <<>>)
Errors == {ResultErrorOf(1), ResultErrorOf(2)}

\* The fields of the dataclass: _ok, _error, _is_ok, _is_err.
Fields(ok, error, is_ok, is_err) ==
    [ok |-> ok, error |-> error, is_ok |-> is_ok, is_err |-> is_err]

AllFields ==
    {Fields(ok, error, is_ok, is_err) :
        ok \in OkValues, error \in Errors \cup {PyNone},
        is_ok \in BOOLEAN, is_err \in BOOLEAN}

\* Result.__post_init__: the field combinations it raises ResultError for.
PostInitRaises(f) ==
    \/ f.is_ok /\ f.error # PyNone
    \/ ~f.is_ok /\ f.ok # PyNone
    \/ ~f.is_ok /\ f.error = PyNone

\* How an operation ends: with a Result, or raising.
Returns(f) == [outcome |-> "returned", obj |-> <<f>>]
Raises(cls) == [outcome |-> cls, obj |-> <<>>]

\* The dataclass constructor, __post_init__ included.
Construct(f) == IF PostInitRaises(f) THEN Raises("ResultError") ELSE Returns(f)

\* Result.Ok(value) and Result.Err(error); _is_err keeps its default False.
ResultOk(value) == Construct(Fields(value, PyNone, TRUE, FALSE))
ResultErr(error) == Construct(Fields(PyNone, error, FALSE, FALSE))

\* Result.is_ok
IsOk(r) == r.is_ok

\* Mutant: is_err answers from the _is_err field.
IsErrField(r) == r.is_err

\* Result.is_err
IsErr(r) == ~r.is_ok

\* What a callback handed to and_then / or_else may do: return a Result it
\* built with Ok or Err.
CallbackResults ==
    {ResultOk(v) : v \in OkValues} \cup {ResultErr(e) : e \in Errors}

\* r.map(callback), callback returning v.
Map(r, v) ==
    IF r.is_ok
    THEN IF r.ok = PyNone THEN Raises("AssertionError")
         ELSE Construct(Fields(v, PyNone, TRUE, FALSE))
    ELSE IF r.error = PyNone THEN Raises("AssertionError")
         ELSE Construct(Fields(PyNone, r.error, FALSE, FALSE))

\* r.map_err(callback), callback returning e.
MapErr(r, e) ==
    IF r.is_ok
    THEN IF r.ok = PyNone THEN Raises("AssertionError")
         ELSE Construct(Fields(r.ok, PyNone, TRUE, FALSE))
    ELSE IF r.error = PyNone THEN Raises("AssertionError")
         ELSE Construct(Fields(PyNone, e, FALSE, FALSE))

\* r.and_then(callback), callback ending as cb.
AndThen(r, cb) == IF r.is_ok THEN cb ELSE ResultErr(r.error)

\* r.or_else(callback), callback ending as cb.
OrElse(r, cb) ==
    IF r.is_ok
    THEN IF r.ok = PyNone THEN Raises("AssertionError")
         ELSE Construct(Fields(r.ok, PyNone, TRUE, FALSE))
    ELSE IF r.error = PyNone THEN Raises("AssertionError") ELSE cb

\* An operation op, passing the constructor the fields passed (if it is the
\* constructor that was called), ends as out: a Result it returns becomes
\* the current one.
ResultStep(op, passed, out) ==
    /\ result_op' = [op |-> op, fields |-> passed]
    /\ result_outcome' = out.outcome
    /\ result_obj' = IF out.outcome = "returned" THEN out.obj ELSE result_obj
    /\ result_value' = [value |-> <<>>, callback |-> FALSE]
    /\ UNCHANGED <<processor, potionvars, extra>>

\* Result(_ok=..., _error=..., _is_ok=..., _is_err=...)
CallConstructor == \E f \in AllFields : ResultStep("Result", <<f>>, Construct(f))

\* Result.Ok(value)
CallOk == \E v \in OkValues : ResultStep("Ok", <<>>, ResultOk(v))

\* Result.Err(error), None included.
CallErr == \E e \in Errors \cup {PyNone} : ResultStep("Err", <<>>, ResultErr(e))

CallMap ==
    /\ result_obj # <<>>
    /\ \E v \in OkValues : ResultStep("map", <<>>, Map(result_obj[1], v))

CallMapErr ==
    /\ result_obj # <<>>
    /\ \E e \in Errors \cup {PyNone} :
           ResultStep("map_err", <<>>, MapErr(result_obj[1], e))

CallAndThen ==
    /\ result_obj # <<>>
    /\ \E cb \in CallbackResults :
           ResultStep("and_then", <<>>, AndThen(result_obj[1], cb))

CallOrElse ==
    /\ result_obj # <<>>
    /\ \E cb \in CallbackResults :
           ResultStep("or_else", <<>>, OrElse(result_obj[1], cb))

\* How an accessor ends: giving a value, the callback called or not, or
\* raising.
Gives(v, called) == [outcome |-> "returned", value |-> <<v>>, callback |-> called]
Fails(cls) == [outcome |-> cls, value |-> <<>>, callback |-> FALSE]

\* r.unwrap()
Unwrap(r) == IF r.is_ok THEN Gives(r.ok, FALSE) ELSE Fails("ResultError")

\* r.expect(message)
Expect(r) == IF r.is_ok THEN Gives(r.ok, FALSE) ELSE Fails("ResultError")

\* r.unwrap_or(default); "assert self._ok is not None" precedes the return.
UnwrapOr(r, default) ==
    IF r.is_ok
    THEN IF r.ok = PyNone THEN Fails("AssertionError") ELSE Gives(r.ok, FALSE)
    ELSE Gives(default, FALSE)

\* r.unwrap_or_else(callback), callback returning v; the same assert
\* precedes the return.
UnwrapOrElse(r, v) ==
    IF r.is_ok
    THEN IF r.ok = PyNone THEN Fails("AssertionError") ELSE Gives(r.ok, FALSE)
    ELSE IF r.error = PyNone THEN Fails("AssertionError") ELSE Gives(v, TRUE)

\* The defaults handed to unwrap_or and computed by the callback of
\* unwrap_or_else: a value no Ok holds.
Defaults == {PyInt(7)}

\* An accessor op of the current Result ends as out; the Result stays.
AccessStep(op, out) ==
    /\ result_obj # <<>>
    /\ result_op' = [op |-> op, fields |-> <<>>]
    /\ result_outcome' = out.outcome
    /\ result_value' = [value |-> out.value, callback |-> out.callback]
    /\ UNCHANGED <<processor, potionvars, extra, result_obj>>

CallUnwrap == AccessStep("unwrap", Unwrap(result_obj[1]))

CallExpect == AccessStep("expect", Expect(result_obj[1]))

CallUnwrapOr ==
    \E d \in Defaults : AccessStep("unwrap_or", UnwrapOr(result_obj[1], d))

CallUnwrapOrElse ==
    \E v \in Defaults : AccessStep("unwrap_or_else", UnwrapOrElse(result_obj[1], v))

ResultNext ==
    \/ CallUnwrap
    \/ CallExpect
    \/ CallUnwrapOr
    \/ CallUnwrapOrElse
    \/ CallConstructor
    \/ CallOk
    \/ CallErr
    \/ CallMap
    \/ CallMapErr
    \/ CallAndThen
    \/ CallOrElse

ResultSpec == NoProcessing /\ [][ResultNext]_vars

\* ------------------------- os/interfaces/telegram/handlers.py: the webhook
MAX_WEBHOOK_SIZE == 1048576

\* The "id" of the "from" object of a message or callback query as the JSON
\* body carries it: null, a number, or a string.
JsonNull == [type |-> "null", n |-> 0, text |-> ""]
JsonInt(n) == [type |-> "int", n |-> n, text |-> ""]
JsonStr(text) == [type |-> "str", n |-> 0, text |-> text]
IdFields == {JsonNull, JsonInt(0), JsonInt(7), JsonInt(42), JsonStr("007"), JsonStr("abc")}

\* int(user_id): a number as it is, a string of digits by its value, any
\* other string raises ValueError.
ParseInt(field) ==
    IF field.type = "int" THEN [raises |-> FALSE, id |-> <<field.n>>]
    ELSE IF field.text = "007" THEN [raises |-> FALSE, id |-> <<7>>]
    ELSE [raises |-> TRUE, id |-> <<>>]

\* str(user_id): the decimal digits without leading zeros.
Str(n) == CASE n = 0 -> "0" [] n = 7 -> "7" [] n = 42 -> "42"

\* The updates a body may validate to: message and callback_query, each
\* empty (None, or a dict without "from") or holding the id of its "from".
Updates ==
    {[message |-> m, callback_query |-> c] :
        m \in {<<>>} \cup {<<f>> : f \in IdFields},
        c \in {<<>>, <<JsonInt(42)>>}}

\* extract_user_id(update): None (empty id), the id, or an error of int().
ExtractUserId(update) ==
    LET from == IF update.message # <<>> THEN update.message
                ELSE update.callback_query
    IN  IF from = <<>> \/ from[1] = JsonNull THEN [raises |-> FALSE, id |-> <<>>]
        ELSE ParseInt(from[1])

\* Mutant: the allowlist is consulted before the denylist.
IsUserAllowedAllowlistFirst(user_id) ==
    IF bot_config.allowlist_user_ids # {} /\ Str(user_id) \in bot_config.allowlist_user_ids
    THEN TRUE
    ELSE Str(user_id) \notin bot_config.denylist_user_ids
         /\ bot_config.allowlist_user_ids = {}

\* is_user_allowed(user_id, bot_config)
IsUserAllowed(user_id) ==
    LET user_id_str == Str(user_id)
    IN  IF bot_config.denylist_user_ids # {}
           /\ user_id_str \in bot_config.denylist_user_ids
        THEN FALSE
        ELSE IF bot_config.allowlist_user_ids # {}
        THEN user_id_str \in bot_config.allowlist_user_ids
        ELSE TRUE

\* Mutant: only a header that is present is compared with the secret.
SecretRejectsPresentHeader(token) ==
    /\ bot_config.webhook_secret \notin {NoSecret, ""}
    /\ token # NoSecret
    /\ token # bot_config.webhook_secret

\* Step 1 of webhook: a secret is configured (not None, not empty) and the
\* X-Telegram-Bot-Api-Secret-Token header, None when absent, differs.
SecretRejects(token) ==
    /\ bot_config.webhook_secret \notin {NoSecret, ""}
    /\ token # bot_config.webhook_secret

\* Step 2 of webhook: a content-length header is present (0 stands for its
\* absence) and above the limit.
TooLarge(content_length) == content_length # 0 /\ content_length > MAX_WEBHOOK_SIZE

\* A request arrives at POST /webhook: the secret and the size are checked
\* and the handler awaits the body, or answers 401 or 413.
WebhookCalled(token, content_length, body) ==
    /\ request.at \in {"none", "responded", "finished"}
    /\ LET status == IF SecretRejects(token) THEN 401
                     ELSE IF TooLarge(content_length) THEN 413
                     ELSE 0
       IN  /\ request' = [at |-> IF status = 0 THEN "parsing" ELSE "responded",
                          token |-> token, content_length |-> content_length,
                          body |-> body]
           /\ response' = [status |-> status, parsed |-> FALSE]
           /\ tg_event' = IF status = 0 THEN "none" ELSE "webhook_error"
    /\ background_tasks' = <<>>
    /\ executor_runs' = <<>>
    /\ UNCHANGED <<processor, resultvars, potionvars, overlapvars, backoffvars, botvars>>

\* "await request.json()" and Update(**update_data) end: an invalid body is
\* answered 400, an error of extract_user_id 500, and a valid update
\* is queued for the background and answered 200.
BodyParsed ==
    /\ request.at = "parsing"
    /\ LET status == IF ~request.body.valid THEN 400
                     ELSE IF ExtractUserId(request.body.update).raises THEN 500
                     ELSE 200
       IN  /\ request' = [request EXCEPT !.at = IF status = 200 THEN "queued"
                                                 ELSE "responded"]
           /\ response' = [status |-> status, parsed |-> TRUE]
           /\ background_tasks' =
                  IF status = 200 THEN <<request.body.update>> ELSE <<>>
           /\ tg_event' = IF status = 200 THEN "webhook_received" ELSE "webhook_error"
    /\ UNCHANGED <<processor, resultvars, potionvars, overlapvars, backoffvars, botvars,
                   executor_runs>>

\* The response has been sent and the background task runs
\* process_update_async up to the call of the executor.
BackgroundTaskRuns ==
    /\ request.at = "queued"
    /\ LET update == Head(background_tasks)
           user_id == ExtractUserId(update).id
           denied ==
               IF user_id = <<>> \/ user_id = <<0>> THEN "no_user_id"
               ELSE IF ~IsUserAllowed(user_id[1]) THEN "access_denied"
               ELSE IF ~executor THEN "no_executor"
               ELSE "none"
       IN  /\ background_tasks' = Tail(background_tasks)
           /\ request' = [request EXCEPT !.at = IF denied = "none" THEN "executing"
                                                 ELSE "finished"]
           /\ executor_runs' = IF denied = "none" THEN <<user_id[1]>> ELSE executor_runs
           /\ tg_event' = IF denied = "none" THEN "executor_start" ELSE denied
    /\ UNCHANGED <<processor, resultvars, potionvars, overlapvars, backoffvars, botvars,
                   response>>

\* executor.run returns, raises, or the timeout of wait_for passes.
ExecutorEnds(event) ==
    /\ request.at = "executing"
    /\ request' = [request EXCEPT !.at = "finished"]
    /\ tg_event' = event
    /\ UNCHANGED <<processor, resultvars, potionvars, overlapvars, backoffvars, botvars,
                   response, background_tasks, executor_runs>>

\* The headers and bodies a request may carry.
Tokens == {NoSecret, "s3cret", "guess"}
ContentLengths == {0, MAX_WEBHOOK_SIZE, MAX_WEBHOOK_SIZE + 1}
Bodies ==
    {[valid |-> FALSE, update |-> [message |-> <<>>, callback_query |-> <<>>]]}
        \cup {[valid |-> TRUE, update |-> u] : u \in Updates}

TelegramNext ==
    \/ \E token \in Tokens, content_length \in ContentLengths, body \in Bodies :
           WebhookCalled(token, content_length, body)
    \/ BodyParsed
    \/ BackgroundTaskRuns
    \/ \E event \in {"executor_complete", "timeout", "executor_error"} :
           ExecutorEnds(event)

\* The bots attach_routes may be given.
BotConfigs ==
    {[webhook_secret |-> secret, allowlist_user_ids |-> allow, denylist_user_ids |-> deny] :
        secret \in {NoSecret, "", "s3cret"},
        allow \in {{}, {"7"}, {"7", "42"}, {"007"}},
        deny \in {{}, {"42"}, {"7", "0"}}}

TelegramStart ==
    /\ Constructed(PlainTransform)
    /\ concurrency = 1
    /\ max_retries = 1
    /\ retry_exceptions = InitRetryExceptions({})
    /\ items = <<>>
    /\ retry_min_wait = DEFAULT_RETRY_MIN_WAIT
    /\ retry_max_wait = DEFAULT_RETRY_MAX_WAIT
    /\ bot_config \in BotConfigs
    /\ executor \in BOOLEAN

TelegramSpec == TelegramStart /\ [][TelegramNext]_vars

\* ------------------------------------------- encoder/potion.py: PotionEncoder
\* The class methods a thread may enter; encode_single and get_embedding call
\* encode, which calls _initialize first.
EntryPoints == {"_initialize", "encode", "encode_single"}

\* Where a thread goes when _initialize returns to what called it.
AfterInitialize(entry) == IF entry = "_initialize" THEN "idle" ELSE "use"

Goto(t, at) == thread_pc' = [thread_pc EXCEPT ![t].at = at]

\* A thread (the caller's, or an executor thread of async_get_embedding)
\* enters one of the class methods.
ThreadCalls(t) ==
    /\ thread_pc[t].at = "idle"
    /\ \E entry \in EntryPoints : thread_pc' = [thread_pc EXCEPT ![t] = [entry |-> entry, at |-> "check"]]
    /\ UNCHANGED <<processor, resultvars, extra, potion_model, potion_initialized,
                   thread_model, load_count>>

\* line 46: if not cls._initialized
CheckInitialized(t) ==
    /\ thread_pc[t].at = "check"
    /\ IF potion_initialized
       THEN Goto(t, AfterInitialize(thread_pc[t].entry))
       ELSE Goto(t, "load")
    /\ UNCHANGED <<processor, resultvars, extra, potion_model, potion_initialized,
                   thread_model, load_count>>

\* line 53, right-hand side: StaticModel.from_pretrained returns a model.
LoadSucceeds(t) ==
    /\ thread_pc[t].at = "load"
    /\ load_count' = load_count + 1
    /\ thread_model' = [thread_model EXCEPT ![t] = load_count + 1]
    /\ Goto(t, "store")
    /\ UNCHANGED <<processor, resultvars, extra, potion_model, potion_initialized>>

\* lines 56-58: from_pretrained raises; _initialize raises RuntimeError.
LoadFails(t) ==
    /\ thread_pc[t].at = "load"
    /\ Goto(t, "idle")
    /\ UNCHANGED <<processor, resultvars, extra, potion_model, potion_initialized,
                   thread_model, load_count>>

\* line 53, assignment: cls._model = ...
StoreModel(t) ==
    /\ thread_pc[t].at = "store"
    /\ potion_model' = thread_model[t]
    /\ Goto(t, "flag")
    /\ UNCHANGED <<processor, resultvars, extra, potion_initialized, thread_model, load_count>>

\* line 54: cls._initialized = True
SetInitialized(t) ==
    /\ thread_pc[t].at = "flag"
    /\ potion_initialized' = TRUE
    /\ Goto(t, AfterInitialize(thread_pc[t].entry))
    /\ UNCHANGED <<processor, resultvars, extra, potion_model, thread_model, load_count>>

\* lines 78-84: encode raises if there is no model, else encodes with it.
UseModel(t) ==
    /\ thread_pc[t].at = "use"
    /\ Goto(t, "idle")
    /\ UNCHANGED <<processor, resultvars, extra, potion_model, potion_initialized,
                   thread_model, load_count>>

PotionNext ==
    \E t \in Threads :
        \/ ThreadCalls(t)
        \/ CheckInitialized(t)
        \/ LoadSucceeds(t)
        \/ LoadFails(t)
        \/ StoreModel(t)
        \/ SetInitialized(t)
        \/ UseModel(t)

PotionSpec == NoProcessing /\ [][PotionNext]_vars

\* ================================================================ claims
Running == {i \in Indices : pc[i] = "running"}
TaskOver(i) == pc[i] \in {"done", "failed"}
ProcEnded == proc \in {"returned", "raised"}

\* The transformation of item i has ultimately failed: its latest invocation
\* raised and no further attempt is under way or pending.
UltimatelyFailed(i) == last_raised[i] # <<>> /\ pc[i] \notin {"running", "sleeping"}

\* What item i contributes to the output: its normalised result without None.
Contribution(i) ==
    IF returned[i] = <<>> THEN <<>>
    ELSE SelectSeq(WrappedCall(returned[i][1].value), IsNotNone)

RECURSIVE Offset(_)
Offset(i) == IF i = 0 THEN 0 ELSE Offset(i - 1) + Len(Contribution(i - 1))

\* C1: whenever process has returned, the returned sequence is the
\* concatenation, in input order, of every item's normalised result with its
\* None elements removed, whatever order the tasks completed in.
C1_OrderPreserved ==
    proc = "returned" =>
        proc_result = Flatten([k \in 1 .. Len(items) |-> Contribution(k - 1)])

\* C1 witness: process returned after item 1 completed before item 0, both
\* contributing elements.
C1_Witness ==
    /\ proc = "returned"
    /\ Len(items) >= 2
    /\ results_dict[1].key = 1
    /\ Len(Contribution(0)) >= 1
    /\ Len(Contribution(1)) >= 2

\* C2: in every state the number of items whose transform invocation is
\* executing is at most the configured concurrency.
C2_BoundedParallelism == Cardinality(Running) <= concurrency

\* C2 witness: the bound is reached by an item in a retry while another item
\* waits for a slot.
C2_Witness ==
    /\ Cardinality(Running) = concurrency
    /\ \E i \in Running : calls[i] >= 2
    /\ \E j \in Indices : pc[j] = "waiting"

\* C3: once any item has ultimately failed, process never returns a sequence;
\* a process call that ended has raised; a returned sequence has a result
\* from every item.
C3_Atomic ==
    /\ (\E i \in Indices : UltimatelyFailed(i)) => proc # "returned"
    /\ (ProcEnded /\ \E i \in Indices : UltimatelyFailed(i)) => proc = "raised"
    /\ proc = "returned" => \A i \in Indices : returned[i] # <<>>

\* C3 witness: process raised for the failure of item 0 and item 1 succeeded
\* afterwards.
C3_Witness ==
    /\ proc = "raised"
    /\ fail_order = <<0>>
    /\ Len(items) >= 2
    /\ pc[1] = "done"
    /\ DictHas(results_dict, 1)

\* Every one of the max_retries invocations for item i raised a retryable
\* error and the item has failed.
Exhausted(i) ==
    /\ max_retries >= 1
    /\ UltimatelyFailed(i)
    /\ calls[i] = max_retries
    /\ retryable[i] = max_retries

\* C4: when all max_retries attempts of an item raised retryable errors, the
\* error its task raises, and process raises when this failure is the one it
\* propagates, is the very error of the last attempt, not an earlier one and
\* not a RetryError.
C4_LastErrorPropagates ==
    \A i \in Indices :
        Exhausted(i) =>
            /\ last_raised[i][1].id = <<i, max_retries, 0>>
            /\ task_exc[i] # <<>>
            /\ task_exc[i][1].id = last_raised[i][1].id
            /\ task_exc[i][1].cls = last_raised[i][1].cls
            /\ (proc = "raised" /\ Head(fail_order) = i) =>
                   /\ proc_exc[1].id = last_raised[i][1].id
                   /\ proc_exc[1].cls # "RetryError"

\* C4 witness: process raised the error of the second of two attempts.
C4_Witness ==
    /\ max_retries = 2
    /\ proc = "raised"
    /\ \E i \in Indices :
          /\ Exhausted(i)
          /\ Head(fail_order) = i
          /\ proc_exc[1].id = <<i, 2, 0>>

\* C5: an item never gives up while fewer than max_retries invocations have
\* raised retryable errors; and when the invocation after k < max_retries
\* retryable failures returns, that was invocation k+1, no invocation
\* follows it, its result is stored, and a returned sequence holds the
\* item's contribution at the item's position.
C5_RetryThenSucceed ==
    \A i \in Indices :
        /\ (TaskOver(i) /\ returned[i] = <<>> /\ retryable[i] = calls[i])
              => calls[i] >= max_retries
        /\ (returned[i] # <<>> /\ retryable[i] < max_retries
               /\ returned[i][1].call = retryable[i] + 1)
              => /\ calls[i] = retryable[i] + 1
                 /\ DictHas(results_dict, i)
                 /\ DictGet(results_dict, i) = WrappedCall(returned[i][1].value)
                 /\ proc = "returned" =>
                        SubSeq(proc_result, Offset(i) + 1,
                               Offset(i) + Len(Contribution(i))) = Contribution(i)

\* C5 witness: process returned and item 1 succeeded in its second
\* invocation, after one retryable failure, with a contribution.
C5_Witness ==
    /\ proc = "returned"
    /\ Len(items) >= 2
    /\ retryable[1] = 1
    /\ calls[1] = 2
    /\ returned[1] # <<>>
    /\ Len(Contribution(0)) >= 1
    /\ Len(Contribution(1)) >= 1

\* The latest invocation for item i raised an error that is not retryable.
RaisedNonRetryable(i) == last_raised[i] # <<>> /\ ~Retryable(last_raised[i][1])

\* What the except clause of process_with_limiter makes of a failure e: the
\* first member when e is a group, else e; then the explicit cause of that
\* error when it is an Exception that has one.
Representative(e) ==
    LET first == IF e.cls \in GroupClasses THEN e.members[1] ELSE e
    IN  IF first.cls \in ExceptionClasses /\ first.cause # <<>>
        THEN first.cause[1]
        ELSE first

\* C6 as stated: after a non-retryable error no further invocation is made
\* for the item (one invocation when the first raised it), and the task, and
\* process when it propagates this failure, fail with that very error.
C6_FailsWithThatFailure ==
    \A i \in Indices :
        RaisedNonRetryable(i) =>
            /\ calls[i] = last_raised[i][1].id[2]
            /\ pc[i] = "failed"
            /\ task_exc[i][1].id = last_raised[i][1].id
            /\ (proc = "raised" /\ Head(fail_order) = i) =>
                   proc_exc[1].id = last_raised[i][1].id

\* C6 amended: after a non-retryable error no further invocation is made
\* for the item (one invocation when the first raised it), the item's task
\* fails at once, and the error it fails with, which process raises when
\* this failure is the one it propagates, is the representative of that
\* error: the error itself, or its explicit cause, or for a group its first
\* member or that member's cause.
C6_NonRetryableShortCircuits ==
    \A i \in Indices :
        RaisedNonRetryable(i) =>
            /\ calls[i] = last_raised[i][1].id[2]
            /\ pc[i] = "failed"
            /\ task_exc[i][1].id = Representative(last_raised[i][1]).id
            /\ ProcEnded => proc = "raised"
            /\ (proc = "raised" /\ Head(fail_order) = i) =>
                   proc_exc[1].id = Representative(last_raised[i][1]).id

\* C6 witness: with only ValueError retryable, the single invocation for the
\* only item raised a TypeError that has a cause, and process raised.
C6_Witness ==
    /\ retry_exceptions = {"ValueError"}
    /\ max_retries = 2
    /\ Len(items) = 1
    /\ proc = "raised"
    /\ calls[0] = 1
    /\ last_raised[0] # <<>>
    /\ last_raised[0][1].cls = "TypeError"
    /\ last_raised[0][1].cause # <<>>

\* The latest invocation for item i raised a severe signal: a BaseException
\* that is not an Exception.
RaisedSevere(i) == last_raised[i] # <<>> /\ last_raised[i][1].cls \notin ExceptionClasses

\* C7: a severe signal is never retried and never replaced: no invocation
\* follows the one that raised it (a single invocation when the first raised
\* it), and the task, and process when it propagates this failure, raise
\* that same, unaltered signal.
C7_SevereSignalPropagates ==
    \A i \in Indices :
        RaisedSevere(i) =>
            /\ calls[i] = last_raised[i][1].id[2]
            /\ pc[i] = "failed"
            /\ task_exc[i] = last_raised[i]
            /\ ProcEnded => proc = "raised"
            /\ (proc = "raised" /\ Head(fail_order) = i) => proc_exc = last_raised[i]

\* C7 witness: with every Exception retryable and two attempts allowed, the
\* first invocation raised a severe signal and process raised it.
C7_Witness ==
    /\ retry_exceptions = {"Exception"}
    /\ max_retries = 2
    /\ proc = "raised"
    /\ \E i \in Indices :
          /\ RaisedSevere(i)
          /\ calls[i] = 1
          /\ proc_exc = last_raised[i]

\* C8 as stated: the error process raises is never an exception group.
C8_NeverRaisesGroup ==
    proc = "raised" => proc_exc[1].cls \notin GroupClasses

\* C9: the error process raises is the error of the task that failed first
\* in time.
C9_FirstFailureInTime ==
    proc = "raised" =>
        /\ fail_order # <<>>
        /\ proc_exc = task_exc[Head(fail_order)]
        /\ proc_exc[1].id[1] = Head(fail_order)

\* C9 witness: two items failed, item 1 before item 0, and process raised
\* the error of item 1.
C9_Witness ==
    /\ proc = "raised"
    /\ fail_order = <<1, 0>>
    /\ proc_exc[1].id[1] = 1

\* C10: with concurrency >= 1 every process call ends, returned or raised;
\* an ended call has exactly one outcome and keeps it.
C10_ProcessEnds ==
    /\ [](concurrency >= 1 => <>ProcEnded)
    /\ [](proc = "returned" => proc_exc = <<>>)
    /\ [](proc = "raised" => Len(proc_exc) = 1 /\ proc_result = <<>>)
    /\ [][ProcEnded => UNCHANGED <<proc, proc_result, proc_exc>>]_vars

\* C10 witness: with one slot for two items, a call ended after an item had
\* waited for the slot and an item had been retried.
C10_Witness ==
    /\ concurrency = 1
    /\ Len(items) = 2
    /\ ProcEnded
    /\ calls[1] >= 1
    /\ \E i \in Indices : calls[i] >= 2

\* ------------------------------------------------------------ C11
\* The normalised result the result map holds for item i.
Stored(i) == IF DictHas(results_dict, i) THEN DictGet(results_dict, i) ELSE <<>>

\* How often the value v occurs in the sequence s.
Count(v, s) == Cardinality({p \in 1 .. Len(s) : s[p] = v})

\* How often v occurs in the normalised results of the first k items.
RECURSIVE CountInFirst(_, _)
CountInFirst(v, k) ==
    IF k = 0 THEN 0 ELSE CountInFirst(v, k - 1) + Count(v, Stored(k - 1))

\* The sequence s without its None elements, every other element kept.
RECURSIVE WithoutNone(_)
WithoutNone(s) ==
    IF s = <<>> THEN <<>>
    ELSE (IF Head(s).type = "NoneType" THEN <<>> ELSE <<Head(s)>>)
             \o WithoutNone(Tail(s))

\* C11: whenever process has returned, the returned sequence holds no None,
\* holds every other value exactly as often as the items' normalised results
\* hold it together (0, False and the empty string included), and holds the
\* non-None elements of each item's normalised result as one contiguous run
\* in the order the item returned them.
C11_FlattenAndFilter ==
    proc = "returned" =>
        /\ \A p \in 1 .. Len(proc_result) : proc_result[p].type # "NoneType"
        /\ \A i \in Indices :
               /\ \A q \in 1 .. Len(Stored(i)) :
                      LET v == Stored(i)[q]
                      IN  v.type # "NoneType" =>
                              Count(v, proc_result) = CountInFirst(v, Len(items))
               /\ \E start \in 0 .. Len(proc_result) :
                      SubSeq(proc_result, start + 1,
                             start + Len(WithoutNone(Stored(i))))
                          = WithoutNone(Stored(i))
        /\ \A p \in 1 .. Len(proc_result) :
               Count(proc_result[p], proc_result)
                   = CountInFirst(proc_result[p], Len(items))

\* C11 witness: process returned for two items, one of which returned the
\* list [0, None, "", False, None] and the other [x, None, y]; the output
\* holds 0, "" and False.
C11_Witness ==
    /\ proc = "returned"
    /\ Len(items) = 2
    /\ returned[0][1].value = MakeValue("falsy list", 0)
    /\ returned[1][1].value = MakeValue("list", 1)
    /\ Count(PyInt(0), proc_result) = 1
    /\ Count(PyEmptyStr, proc_result) = 1
    /\ Count(PyBool(FALSE), proc_result) = 1
    /\ Len(proc_result) = 5

\* ------------------------------------------------------------ C12
IsSequence(r) == r.type \in {"list", "tuple"}

\* C12: for every item whose transformation succeeded, the normalised
\* result the result map holds for what transform returned is: empty for
\* None and for a zero-length list or tuple; the one element x for the
\* one-element list [x] and the one-element tuple (x,); and the value itself
\* as one element for anything that is neither None nor list nor tuple, a
\* string (the empty one included) being one such value and never its
\* characters.
C12_Normalization ==
    \A i \in Indices :
        (returned[i] # <<>> /\ DictHas(results_dict, i)) =>
            LET r == returned[i][1].value
                s == DictGet(results_dict, i)
            IN  /\ r.type = "NoneType" => s = <<>>
                /\ (IsSequence(r) /\ Len(r.elems) = 0) => s = <<>>
                /\ (IsSequence(r) /\ Len(r.elems) = 1) => s = <<r.elems[1]>>
                /\ (r.type # "NoneType" /\ ~IsSequence(r)) => s = <<r>>
                /\ r.type = "str" => (Len(s) = 1 /\ s[1].type = "str" /\ s[1] = r)

\* C12 witness: of two items whose transformation succeeded one returned a
\* two-character string and the other a one-element tuple.
C12_Witness ==
    /\ Len(items) = 2
    /\ DictHas(results_dict, 0)
    /\ DictHas(results_dict, 1)
    /\ returned[0][1].value = MakeValue("str", 0)
    /\ returned[1][1].value = MakeValue("tuple of one", 1)
    /\ DictGet(results_dict, 1) = <<PyInt(10)>>

\* ------------------------------------------------------------ C13
\* C13: for an empty list of items process is either not yet called or has
\* returned the empty sequence; it never awaits anything or raises, no
\* semaphore is created or acquired, no task exists or is scheduled, and
\* transform is never invoked.
C13_EmptyInput ==
    items = <<>> =>
        /\ proc \in {"idle", "returned"}
        /\ proc_result = <<>>
        /\ proc_exc = <<>>
        /\ sem_value = 0
        /\ sem_waiters = <<>>
        /\ ready = <<>>
        /\ DOMAIN pc = {}
        /\ results_dict = <<>>
        /\ \A i \in DOMAIN calls : calls[i] = 0

\* C13 witness: process has returned for an empty list of items.
C13_Witness == items = <<>> /\ proc = "returned" /\ proc_result = <<>>

\* ------------------------------------------------------------ C14
\* The field combinations of an Ok and of an Err.
OkShape(f) == f.is_ok /\ f.error = PyNone
ErrShape(f) == ~f.is_ok /\ f.error # PyNone /\ f.ok = PyNone

\* C14: a Result that exists, however it was constructed, answers is_ok()
\* and is_err() differently, holds no error if it is Ok, and holds an error
\* and no ok value if it is Err; and when the dataclass constructor was
\* called directly it returned the object with the fields passed if they
\* are those of an Ok or of an Err, and raised ResultError for any other
\* combination.
C14_ExactlyOkOrErr ==
    /\ \A k \in 1 .. Len(result_obj) :
           LET r == result_obj[k]
           IN  /\ IsOk(r) # IsErr(r)
               /\ IsOk(r) => r.error = PyNone
               /\ IsErr(r) => (r.error # PyNone /\ r.ok = PyNone)
    /\ result_op.op = "Result" =>
           LET f == result_op.fields[1]
           IN  IF OkShape(f) \/ ErrShape(f)
               THEN result_outcome = "returned" /\ result_obj = <<f>>
               ELSE result_outcome = "ResultError"

\* C14 witness: an Err exists, and a direct call of the constructor with
\* _is_ok=False and an ok value has just been rejected.
C14_Witness ==
    /\ result_obj # <<>>
    /\ IsErr(result_obj[1])
    /\ result_obj[1].error = ResultErrorOf(2)
    /\ result_op.op = "Result"
    /\ ~result_op.fields[1].is_ok
    /\ result_op.fields[1].ok = PyInt(42)
    /\ result_outcome = "ResultError"

\* ------------------------------------------------------------ C15
\* C15: in every state, whatever threads called _initialize, encode and
\* encode_single and however their steps interleaved, StaticModel.from_pretrained
\* has returned a model at most once.
C15_LoadedAtMostOnce == load_count <= 1

\* ------------------------------------------------------------ C16
\* C16: an item whose max_retries invocations all raised retryable errors
\* fails with what the propagation rule of non-retryable failures (the
\* representative: the error, its explicit cause, or for a group its first
\* member) makes of the error of the last invocation, and process raises
\* that when this failure is the one it propagates.
C16_SamePropagationRule ==
    \A i \in Indices :
        Exhausted(i) =>
            /\ task_exc[i] # <<>>
            /\ task_exc[i][1].id = Representative(last_raised[i][1]).id
            /\ (proc = "raised" /\ Head(fail_order) = i) =>
                   proc_exc[1].id = Representative(last_raised[i][1]).id

\* ------------------------------------------------------------ C17
\* The tasks that hold a slot: from the acquisition (directly, or handed
\* over by a release) to the end of their processing.
Holders == {i \in Indices : pc[i] \in {"woken", "running", "sleeping"}}

\* The slots the semaphore has given out.
HeldSlots == concurrency - sem_value

\* The task of item i was cancelled.
Cancelled(i) == task_exc[i] # <<>> /\ task_exc[i][1].cls = "CancelledError"

\* C17: once the semaphore exists, the slots it has given out are between 0
\* and concurrency and are exactly one for each task that has acquired and
\* not yet ended (no task holds two, none is held by a task that has ended
\* by success, failure, severe signal or cancellation, or that has not
\* acquired); transform is invoked only for a task that has acquired; and
\* when every task has ended all slots are free and nobody waits.
C17_SlotPerTask ==
    (proc # "idle" /\ items # <<>>) =>
        /\ HeldSlots >= 0
        /\ HeldSlots <= concurrency
        /\ HeldSlots = Cardinality(Holders)
        /\ \A i \in Indices :
               calls[i] >= 1 => pc[i] \in {"running", "sleeping", "done", "failed"}
        /\ \A k \in 1 .. Len(sem_waiters) : pc[sem_waiters[k]] = "waiting"
        /\ (\A i \in Indices : TaskOver(i)) =>
               (sem_value = concurrency /\ sem_waiters = <<>>)

\* C17 witness: of two items sharing one slot the first was cancelled during
\* its backoff wait, the second then acquired the slot and ended by a severe
\* signal, and all slots are free.
C17_Witness ==
    /\ concurrency = 1
    /\ Len(items) = 2
    /\ fail_order = <<0, 1>>
    /\ Cancelled(0)
    /\ calls[0] = 1
    /\ last_raised[0] # <<>>
    /\ last_raised[0][1].cls = "ValueError"
    /\ task_exc[1] # <<>>
    /\ task_exc[1][1].cls = "CustomBaseException"
    /\ sem_value = 1

\* ------------------------------------------------------------ C18
\* C18: when max_retries is at least 1, no item is ever invoked more than
\* max_retries times, and an item whose task has ended after nothing but
\* retryable failures was invoked exactly max_retries times.
C18_AtMostMaxRetries ==
    max_retries >= 1 =>
        \A i \in Indices :
            /\ calls[i] <= max_retries
            /\ attempt_number[i] <= max_retries
            /\ (TaskOver(i) /\ returned[i] = <<>> /\ calls[i] >= 1
                   /\ retryable[i] = calls[i])
                  => calls[i] = max_retries

\* C18 witness: with max_retries = 2 an item has failed after two
\* invocations that both raised a retryable error, while the other item had
\* one invocation.
C18_Witness ==
    /\ max_retries = 2
    /\ Len(items) = 2
    /\ pc[0] = "failed"
    /\ calls[0] = 2
    /\ retryable[0] = 2
    /\ calls[1] = 1
    /\ pc[1] = "done"

\* ------------------------------------------------------------ C19
\* C19: the attempt number of each item counts that item's own invocations
\* only: while an invocation runs, all the item's earlier invocations and no
\* others raised retryable errors; while the item waits to retry, the
\* attempt number its backoff is computed from is the number of its own
\* failures and is below max_retries; and an item that has given up after a
\* retryable error has had max_retries retryable failures of its own,
\* whatever the other items did meanwhile.
C19_RetryStatePerItem ==
    \A i \in Indices :
        /\ attempt_number[i] = calls[i]
        /\ pc[i] = "running" => retryable[i] = attempt_number[i] - 1
        /\ pc[i] = "sleeping" =>
               (retryable[i] = attempt_number[i] /\ attempt_number[i] < max_retries)
        /\ (pc[i] = "failed" /\ Retryable(last_raised[i][1])) =>
               retryable[i] >= max_retries

\* C19 witness: with two slots and max_retries = 2, item 1 has used up both
\* its attempts while item 0, whose first attempt failed before, still waits
\* for its second.
C19_Witness ==
    /\ concurrency = 2
    /\ max_retries = 2
    /\ Len(items) = 2
    /\ pc[0] = "sleeping"
    /\ attempt_number[0] = 1
    /\ pc[1] = "failed"
    /\ attempt_number[1] = 2
    /\ retryable[1] = 2

\* ------------------------------------------------------------ C20
\* The items between the start of their first attempt and the end of their
\* final attempt, backoff waits included.
InFlight == {i \in Indices : pc[i] \in {"running", "sleeping"}}

\* C20: with concurrency = 1 at most one item is in flight, and while one
\* is, every other item has either had no invocation yet or has ended; and
\* for every concurrency, 1 included, a returned sequence has each item's
\* contribution (its normalised result of the invocation that returned,
\* without None) at the place the contributions of the items before it
\* leave, and nothing else, so it is the same whatever the concurrency.
C20_Sequential ==
    /\ concurrency = 1 =>
           /\ Cardinality(InFlight) <= 1
           /\ \A i \in InFlight : \A j \in Indices \ {i} :
                  calls[j] = 0 \/ TaskOver(j)
    /\ proc = "returned" =>
           /\ \A i \in Indices :
                  /\ returned[i] # <<>>
                  /\ returned[i][1].call = calls[i]
                  /\ \A q \in 1 .. Len(Contribution(i)) :
                         proc_result[Offset(i) + q] = Contribution(i)[q]
           /\ Len(proc_result) = Offset(Len(items))

\* C20 witness: with concurrency = 1 item 0 waits to retry after a failed
\* first attempt while item 1, not yet invoked, waits for the slot.
C20_Witness ==
    /\ concurrency = 1
    /\ Len(items) = 2
    /\ pc[0] = "sleeping"
    /\ pc[1] = "waiting"
    /\ sem_waiters = <<1>>
    /\ calls[1] = 0

\* ------------------------------------------------------------ C21
\* Every item task has ended on its own, after at least one invocation and
\* without having been cancelled.
AllRanToTheEnd ==
    \A i \in Indices : TaskOver(i) /\ calls[i] >= 1 /\ ~Cancelled(i)

\* C21: from the moment the first item has failed, process can raise
\* without any other task having to end, and it does raise; once it has
\* raised it stays raised with nothing returned, whatever the other tasks
\* produce afterwards; and (for concurrency >= 1) every other task still
\* acquires the semaphore, invokes transform, retries and ends on its own,
\* none being cancelled.
C21_RaisesWithoutWaiting ==
    /\ []((proc = "gathering" /\ fail_order # <<>>) => ENABLED ProcessResumes)
    /\ [](fail_order # <<>> => <>(proc = "raised"))
    /\ [](proc = "raised" => proc_result = <<>>)
    /\ [][proc = "raised" => (proc' = "raised" /\ proc_exc' = proc_exc)]_vars
    /\ []((proc = "raised" /\ concurrency >= 1) => <>AllRanToTheEnd)

\* C21 witness: with one slot, process has raised the failure of item 0
\* while item 1, admitted only when item 0 had failed, is between two
\* attempts of its own.
C21_Witness ==
    /\ concurrency = 1
    /\ Len(items) = 2
    /\ proc = "raised"
    /\ fail_order = <<0>>
    /\ proc_exc = task_exc[0]
    /\ pc[1] = "sleeping"
    /\ calls[1] = 1

\* ------------------------------------------------------------ C22
\* C22: the items between the start of their first attempt and the end of
\* their final attempt, those waiting to retry included, each hold a slot:
\* they are never more than concurrency and never more than the slots the
\* semaphore has given out; and an item waits for the semaphore only while
\* every slot is held by such an item or reserved for an item just woken.
C22_SlotHeldAcrossBackoff ==
    (proc # "idle" /\ items # <<>>) =>
        /\ Cardinality(InFlight) <= concurrency
        /\ Cardinality(InFlight) <= HeldSlots
        /\ \A j \in Indices :
               pc[j] = "waiting" =>
                   /\ sem_value = 0
                   /\ Cardinality(Holders) = concurrency
                   /\ calls[j] = 0

\* C22 witness: with one slot, item 0 is in its second attempt, after a
\* failure and a backoff wait, and item 1 has been waiting for the slot all
\* along.
C22_Witness ==
    /\ concurrency = 1
    /\ Len(items) = 2
    /\ pc[0] = "running"
    /\ calls[0] = 2
    /\ retryable[0] = 1
    /\ pc[1] = "waiting"
    /\ calls[1] = 0
    /\ sem_value = 0

\* ---------------------------------------------------------------- C23
OverlapExecuting(c) == {i \in OverlapIndices(c) : ov_pc[c][i] = "running"}
OverlapHolders(c) ==
    {i \in OverlapIndices(c) : ov_pc[c][i] \in {"woken", "running", "sleeping"}}
OverlapOwnResult(c) ==
    SelectSeq(Flatten([k \in 1 .. Len(ov_items[c]) |->
                          WrappedCall(ov_returned[c][k - 1][1])]), IsNotNone)

\* C23: the admission gate and the result map belong to one process call.
\* Of two overlapping calls on one processor, each executes at most
\* concurrency transformations at a time, a task of a call waits for
\* admission only while concurrency tasks of its own call hold a slot
\* (whatever the other call does), a call returns exactly the results of
\* its own items in their order, and it raises only the error of one of its
\* own failed items.
C23_GateAndMapPerCall ==
    \A c \in Calls :
        /\ Cardinality(OverlapExecuting(c)) <= concurrency
        /\ \A i \in OverlapIndices(c) :
              ov_pc[c][i] = "waiting" => Cardinality(OverlapHolders(c)) = concurrency
        /\ ov_proc[c].state = "returned" =>
              /\ \A i \in OverlapIndices(c) : ov_pc[c][i] = "done"
              /\ ov_proc[c].result = OverlapOwnResult(c)
        /\ ov_proc[c].state = "raised" =>
              \E i \in OverlapIndices(c) :
                  /\ ov_pc[c][i] = "failed"
                  /\ ov_proc[c].exc = ov_exc[c][i]
                  /\ ov_exc[c][i][1].id[1] = ov_items[c][i + 1]

\* Both calls execute a transformation at once on a processor of concurrency
\* one: call 1 has raised for its first item while its second item runs, and
\* call 2 runs its first item with its second waiting at its own gate.
C23_Witness ==
    /\ concurrency = 1
    /\ Len(ov_items[1]) = 2 /\ Len(ov_items[2]) = 2
    /\ ov_proc[1].state = "raised"
    /\ ov_pc[1][0] = "failed" /\ ov_pc[1][1] = "running"
    /\ ov_proc[2].state = "gathering"
    /\ ov_pc[2][0] = "running" /\ ov_pc[2][1] = "waiting"

\* ---------------------------------------------------------------- C24
\* C24: every processor that can be constructed has concurrency >= 1,
\* max_retries >= 1 and retry_min_wait <= retry_max_wait, and no step of
\* process changes a configuration field.
C24_ConfigWithinBounds ==
    /\ [](concurrency >= 1 /\ max_retries >= 1 /\ retry_min_wait <= retry_max_wait)
    /\ [][/\ concurrency' = concurrency
          /\ max_retries' = max_retries
          /\ retry_exceptions' = retry_exceptions
          /\ retry_min_wait' = retry_min_wait
          /\ retry_max_wait' = retry_max_wait]_vars

\* ---------------------------------------------------------------- C25
Clamp(x, lo, hi) == IF x < lo THEN lo ELSE IF x > hi THEN hi ELSE x
WaitAfter(n) == backoff_waits[n]
WaitsApplied == 1 .. Len(backoff_waits)

\* C25 as stated: for retry_min_wait <= retry_max_wait the wait after the
\* n-th failed attempt is 1000 * 2^(n-1) ms clamped into
\* [retry_min_wait, retry_max_wait], within these bounds and non-decreasing
\* in n.
C25_ClampedForOrderedBounds ==
    retry_min_wait <= retry_max_wait =>
        \A n \in WaitsApplied :
            /\ WaitAfter(n) = Clamp(1000 * 2^(n - 1), retry_min_wait, retry_max_wait)
            /\ WaitAfter(n) >= retry_min_wait
            /\ WaitAfter(n) <= retry_max_wait
            /\ n > 1 => WaitAfter(n - 1) <= WaitAfter(n)

\* C25, amended: the same for retry_min_wait <= retry_max_wait with
\* retry_max_wait >= 0; for ordered bounds with a negative retry_max_wait
\* every wait is 0, which is above retry_max_wait.
C25_ClampedForNonNegativeMax ==
    retry_min_wait <= retry_max_wait =>
        \A n \in WaitsApplied :
            /\ n > 1 => WaitAfter(n - 1) <= WaitAfter(n)
            /\ WaitAfter(n) >= retry_min_wait
            /\ IF retry_max_wait >= 0
               THEN /\ WaitAfter(n) =
                           Clamp(1000 * 2^(n - 1), retry_min_wait, retry_max_wait)
                    /\ WaitAfter(n) <= retry_max_wait
               ELSE WaitAfter(n) = 0

\* The default bounds: the floor applies to the first two waits, the
\* exponential value to the next two and the ceiling to the fifth.
C25_Witness ==
    /\ retry_min_wait = 3500
    /\ retry_max_wait = 15000
    /\ backoff_waits = <<3500, 3500, 4000, 8000, 15000>>

Accessors == {"unwrap", "expect", "unwrap_or", "unwrap_or_else"}

\* C27: for every Ok(v), v = None included, unwrap(), expect(m),
\* unwrap_or(d) and unwrap_or_else(cb) return v, none of them raises, and cb
\* is not called.
C27_AccessorsAgreeOnOk ==
    (/\ result_obj # <<>>
     /\ result_op.op \in Accessors
     /\ IsOk(result_obj[1]))
        => /\ result_outcome = "returned"
           /\ result_value.value = <<result_obj[1].ok>>
           /\ ~result_value.callback

\* ---------------------------------------------------------------- C28
\* The user id the update of the current request carries: its message's
\* when the message has one, else its callback query's.
UserIdOf(update) ==
    LET from == IF update.message # <<>> THEN update.message ELSE update.callback_query
    IN  IF from = <<>> THEN <<>>
        ELSE IF from[1].type = "int" THEN <<from[1].n>>
        ELSE IF from[1].text = "007" THEN <<7>>
        ELSE <<>>
BackgroundDecided == request.at \in {"executing", "finished"}
Digits(n) == IF n = 7 THEN "7" ELSE IF n = 42 THEN "42" ELSE "0"

\* C28: the executor is invoked only for an update with a user id that is
\* not in the denylist and, when the allowlist is not empty, is in the
\* allowlist, so a user in both lists never reaches it; with an empty
\* allowlist every user not in the denylist reaches the executor that is
\* configured.
C28_ExecutorOnlyForAllowedUsers ==
    LET user == UserIdOf(request.body.update)
        allow == bot_config.allowlist_user_ids
        deny == bot_config.denylist_user_ids
    IN  BackgroundDecided =>
            /\ executor_runs # <<>> =>
                  /\ executor_runs = user
                  /\ Digits(user[1]) \notin deny
                  /\ allow # {} => Digits(user[1]) \in allow
            /\ (/\ user # <<>> /\ user # <<0>>
                /\ Digits(user[1]) \in allow /\ Digits(user[1]) \in deny)
                   => executor_runs = <<>> /\ tg_event = "access_denied"
            /\ (/\ user # <<>> /\ user # <<0>>
                /\ allow = {} /\ Digits(user[1]) \notin deny /\ executor)
                   => executor_runs = user

\* The executor runs for user 7 of a bot that allows 7 and 42 and denies 42.
C28_Witness ==
    /\ bot_config.allowlist_user_ids = {"7", "42"}
    /\ bot_config.denylist_user_ids = {"42"}
    /\ request.at = "executing"
    /\ executor_runs = <<7>>

\* ---------------------------------------------------------------- C29
SecretConfigured == bot_config.webhook_secret \notin {NoSecret, ""}

\* C29: for a bot with a non-empty webhook_secret, a request whose secret
\* header is absent or differs from the secret is answered 401 before its
\* body is parsed, and no update of it is queued or processed.
C29_UnauthorizedNeverQueued ==
    (/\ SecretConfigured
     /\ request.at # "none"
     /\ request.token # bot_config.webhook_secret)
        => /\ response.status = 401
           /\ ~response.parsed
           /\ request.at = "responded"
           /\ background_tasks = <<>>
           /\ executor_runs = <<>>

\* A request without the header, carrying a valid update of an allowed
\* user, has been answered 401.
C29_Witness ==
    /\ bot_config.webhook_secret = "s3cret"
    /\ executor
    /\ request.at = "responded"
    /\ request.token = NoSecret
    /\ request.body.valid
    /\ request.body.update.message = <<JsonInt(7)>>
    /\ bot_config.allowlist_user_ids = {}
    /\ bot_config.denylist_user_ids = {}
    /\ response.status = 401

\* ---------------------------------------------------------------- C30
EntriesFor(i) == {p \in 1 .. Len(results_dict) : results_dict[p].key = i}
Succeeded(i) == returned[i] # <<>>
Failed(i) == \E p \in 1 .. Len(fail_order) : fail_order[p] = i

\* C30: within one process call the result map receives an entry for index
\* i at most once (an entry is never written again or removed), only when
\* item i's processing succeeded and never for an item that failed; when
\* the output has been assembled the map holds exactly one entry for every
\* index 0 .. len(items)-1.
C30_OneEntryPerSucceededIndex ==
    /\ [](\A i \in Indices :
             /\ Cardinality(EntriesFor(i)) <= 1
             /\ EntriesFor(i) # {} => (Succeeded(i) /\ ~Failed(i))
             /\ Failed(i) => EntriesFor(i) = {})
    /\ []((proc = "returned" /\ items # <<>>) =>
             /\ Len(results_dict) = Len(items)
             /\ \A i \in Indices : Cardinality(EntriesFor(i)) = 1)
    /\ [][\A i \in Indices :
             /\ EntriesFor(i) # {} => results_dict' = results_dict \/ 
                   (/\ Len(results_dict') = Len(results_dict) + 1
                    /\ \A p \in 1 .. Len(results_dict) : results_dict'[p] = results_dict[p])
             /\ (EntriesFor(i) = {} /\ DictHas(results_dict', i)) =>
                   (pc[i] = "running" /\ pc'[i] = "done" /\ returned'[i] # <<>>)]_vars

\* Both items have succeeded, the second before the first, and the output
\* has been assembled.
C30_Witness ==
    /\ proc = "returned"
    /\ Len(items) = 2
    /\ Len(results_dict) = 2
    /\ results_dict[1].key = 1
    /\ results_dict[2].key = 0
    /\ calls[0] = 2

====
